---- MODULE Spec2Model ----
(***************************************************************************)
(* Video-Prompter: the recording / camera / autoscroll state machine.      *)
(*                                                                         *)
(* The builds of the application are selected by `variant`:               *)
(*   "components"  VideoTeleprompterApp + VideoComponent + ScriptComponent *)
(*                 + ControlsComponent                                     *)
(*   "single"      the single-class VideoTeleprompter of src/app.js        *)
(*   "script"      the first VideoTeleprompter class of src/script.js: the *)
(*                 single class with a MIME fallback chain, an alert when  *)
(*                 a start fails and a guard against an empty recording    *)
(*   "legacy"      the second VideoTeleprompter class of src/script.js     *)
(*                 (its panel gestures and settings only)                  *)
(*                                                                         *)
(* The browser is modelled by what the handlers can observe of it:         *)
(*   tracks      the streams getUserMedia has produced, live or stopped    *)
(*   gum         getUserMedia requests not yet settled                     *)
(*   recorders   the MediaRecorder objects created so far                  *)
(*   microtasks  continuations of awaits whose promise is already settled  *)
(*   rafPending / timerActive   a scheduled animation frame / interval     *)
(* Events of the browser (a getUserMedia settlement, a recorder event, an  *)
(* animation frame, a timer tick, a click) are tasks: they run only when   *)
(* the microtask queue is empty, and a click's own continuation runs at    *)
(* the end of its task.  Calls of the public API may be made by any        *)
(* script, several in one task: a call may find the continuation of an     *)
(* earlier call still queued.                                              *)
(*                                                                         *)
(* The service worker of the components build is the record `sw`: its      *)
(* install, activate and fetch listeners and the origin's CacheStorage.    *)
(***************************************************************************)
EXTENDS Integers, Sequences, FiniteSets, TLC

\* ---------------------------------------------------------------- bounds
MaxStreams == 2      \* streams getUserMedia may produce in one run
MaxPending == 2      \* getUserMedia requests in flight at once
MaxRecorders == 2    \* MediaRecorder objects created in one run
MaxData == 1         \* timeslice dataavailable events per recorder
MaxMicrotasks == 1   \* continuations queued at once
MaxScroll == 2       \* scrollHeight - clientHeight of an overflowing script

\* ------------------------------------------------------ program constants
DEFAULT_SPEED == 120
ANIMATION_FPS == 60
TickMs == 16
WordCount == 1       \* words of the script when it is not empty
SpeedWPM == 200      \* the speed slider's value

\* pointer coordinates and finger distances are multiples of PointerStep
PointerStep == 200
MaxPointerSteps == 2
MaxButtons == 2      \* mouse buttons held at once
MaxFingers == 2      \* fingers on the screen at once

MaxWords == 12       \* words of the script whose duration is computed
MaxOffset == 5       \* scrollHeight - clientHeight of a scrolled script

VARIABLES
    variant,          \* "components" | "single" | "script" | "legacy"
    supported,        \* the MIME types MediaRecorder.isTypeSupported accepts
    wordCount,        \* words in the script text
    maxScroll,        \* scrollHeight - clientHeight of the script input
    stream,           \* this.stream: 0 (null) or a stream id
    mediaRecorder,    \* this.mediaRecorder: 0 (null) or a recorder id
    recordedChunks,   \* this.recordedChunks
    isRecording,      \* this.isRecording
    currentCamera,    \* this.currentCamera
    recordButton,     \* the record button carries the class 'recording'
    isScrolling,      \* state.isScrolling / this.isScrolling
    scrollAnimation,  \* ScriptComponent.scrollAnimation is not null
    scrollInterval,   \* VideoTeleprompter.scrollInterval is set
    scrollTop,        \* scriptInput.scrollTop
    scrollElapsed,    \* Date.now() - this.scrollStartTime, in ms
    rafPending,       \* a requestAnimationFrame callback is scheduled
    timerActive,      \* the setInterval timer is running
    tracks,           \* tracks[s]: the tracks of stream s are live
    recorders,        \* the MediaRecorder objects
    gum,              \* pending getUserMedia requests
    microtasks,       \* queued continuations of toggleRecording
    saved,            \* the files produced so far
    lastMessage,      \* the last alert() or console.error() text, "" if none
    ui,               \* the script panel: its geometry, the gesture in
                      \* progress, the preferences and localStorage
    sw                \* the service worker: its lifecycle, the origin's
                      \* CacheStorage and the fetch events in progress

vars == <<variant, supported, wordCount, maxScroll, stream, mediaRecorder,
          recordedChunks, isRecording, currentCamera, recordButton,
          isScrolling, scrollAnimation, scrollInterval, scrollTop,
          scrollElapsed, rafPending, timerActive, tracks, recorders, gum,
          microtasks, saved, lastMessage, ui, sw>>

\* The handlers are written as functions from the state to the state; `ret`
\* carries a handler's return value to its caller.
Cur ==
    [variant |-> variant, supported |-> supported, wordCount |-> wordCount,
     maxScroll |-> maxScroll, stream |-> stream,
     mediaRecorder |-> mediaRecorder, recordedChunks |-> recordedChunks,
     isRecording |-> isRecording, currentCamera |-> currentCamera,
     recordButton |-> recordButton, isScrolling |-> isScrolling,
     scrollAnimation |-> scrollAnimation, scrollInterval |-> scrollInterval,
     scrollTop |-> scrollTop, scrollElapsed |-> scrollElapsed,
     rafPending |-> rafPending, timerActive |-> timerActive,
     tracks |-> tracks, recorders |-> recorders, gum |-> gum,
     microtasks |-> microtasks, saved |-> saved,
     lastMessage |-> lastMessage,
     ret |-> FALSE]

Apply(s) ==
    /\ variant' = s.variant
    /\ supported' = s.supported
    /\ wordCount' = s.wordCount
    /\ maxScroll' = s.maxScroll
    /\ stream' = s.stream
    /\ mediaRecorder' = s.mediaRecorder
    /\ recordedChunks' = s.recordedChunks
    /\ isRecording' = s.isRecording
    /\ currentCamera' = s.currentCamera
    /\ recordButton' = s.recordButton
    /\ isScrolling' = s.isScrolling
    /\ scrollAnimation' = s.scrollAnimation
    /\ scrollInterval' = s.scrollInterval
    /\ scrollTop' = s.scrollTop
    /\ scrollElapsed' = s.scrollElapsed
    /\ rafPending' = s.rafPending
    /\ timerActive' = s.timerActive
    /\ tracks' = s.tracks
    /\ recorders' = s.recorders
    /\ gum' = s.gum
    /\ microtasks' = s.microtasks
    /\ saved' = s.saved
    /\ lastMessage' = s.lastMessage
    /\ UNCHANGED <<ui, sw>>

\* The service worker before its script has run: no handler has been
\* called, the CacheStorage is empty, no fetch event is in progress.
\* `cached` holds the stored responses, `keys` the names that activate got
\* from caches.keys(), `todo` its deletions not yet done, `fetches` the
\* fetch events whose respondWith promise is pending, `puts` the responses
\* on their way into the cache, `last` the last fetch event and whether its
\* listener called respondWith, `answered` the last settled respondWith:
\* whether fetch() was called, and where the answer came from.
SwAtRest ==
    [state |-> "parsed", caches |-> {}, cached |-> {}, keys |-> {},
     todo |-> {}, fetches |-> <<>>, puts |-> {},
     last |-> [method |-> "", respondWith |-> FALSE],
     answered |-> [network |-> FALSE, from |-> "none"]]

Min(a, b) == IF a <= b THEN a ELSE b

Max(a, b) == IF a >= b THEN a ELSE b

\* an inline style that is not set (the empty string), a property that is
\* undefined or absent
Unset == -1

\* localStorage without the settings key
StorageMissing ==
    [kind |-> "missing", scriptText |-> "", speed |-> Unset,
     textSize |-> Unset, isTextRotated |-> FALSE, currentCamera |-> "",
     left |-> Unset, top |-> Unset, width |-> Unset, height |-> Unset]

\* The script panel before any gesture. Lengths are in CSS pixels; `inline`
\* holds the names of the style properties the scripts have set on the
\* panel; lastDistance = 0 stands for null. `pageScript` is the text the
\* page's markup gives the script input, `logged` the text of the last
\* console.error of a settings handler, `thrown` whether the last event's
\* listener ended with an exception, `duration` the durationMs that
\* startScrolling has computed, `speedActive` and `sizeActive` the speed and
\* size buttons of ControlsComponent that carry the class 'active'.
UiAtRest ==
    [vw |-> 0, vh |-> 0, loadVw |-> 0, loadVh |-> 0,
     left |-> 0, top |-> 0, width |-> 0, height |-> 0, inline |-> {},
     isDragging |-> FALSE, isResizing |-> FALSE,
     startX |-> 0, startY |-> 0, startLeft |-> 0, startTop |-> 0,
     startWidth |-> 0, startHeight |-> 0, lastDistance |-> 0,
     isResizingWidth |-> FALSE, resizeDirection |-> "null",
     initialHeight |-> 0, initialMouseY |-> 0,
     initialWidth |-> 0, initialMouseX |-> 0,
     buttons |-> 0, fingers |-> 0,
     scriptText |-> "", speed |-> 0, textSize |-> 0, isTextRotated |-> FALSE,
     pageScript |-> "", storage |-> StorageMissing, quota |-> FALSE,
     thrown |-> FALSE, logged |-> "", duration |-> Unset,
     speedActive |-> {}, sizeActive |-> {}]

RemoveAt(q, i) == [j \in 1..(Len(q) - 1) |-> IF j < i THEN q[j] ELSE q[j + 1]]

alert(s, message) == [s EXCEPT !.lastMessage = message]

consoleError(s, message) == [s EXCEPT !.lastMessage = message]

\* ------------------------------------------------------------ the browser

Other(camera) == IF camera = "user" THEN "environment" ELSE "user"

\* MediaStream Recording: when all tracks of a recorder's stream have ended,
\* the recorder stops by itself: it becomes inactive and a final
\* dataavailable event and a stop event are queued.
EndRecorders(recs, tr) ==
    [r \in DOMAIN recs |->
        IF recs[r].state = "recording" /\ ~tr[recs[r].stream]
        THEN [recs[r] EXCEPT !.state = "inactive", !.pend = 2]
        ELSE recs[r]]

\* stream.getTracks().forEach(track => track.stop())
StopTracks(s, id) ==
    LET tr == [s.tracks EXCEPT ![id] = FALSE]
    IN [s EXCEPT !.tracks = tr, !.recorders = EndRecorders(s.recorders, tr)]

\* navigator.mediaDevices.getUserMedia(constraints), up to the await.  `held`
\* records the stream the caller held when it issued the request.
GetUserMedia(s, caller) ==
    [s EXCEPT !.gum = Append(s.gum, [caller |-> caller,
                                     held |-> s.stream])]

\* new MediaRecorder(this.stream, {mimeType}) assigned to this.mediaRecorder;
\* ret = FALSE when the constructor throws (TypeError without a stream,
\* NotSupportedError for a MIME type the browser cannot record).
NewMediaRecorder(s, mimeType) ==
    IF s.stream = 0 \/ mimeType \notin s.supported
    THEN [s EXCEPT !.ret = FALSE]
    ELSE [s EXCEPT !.recorders = Append(s.recorders,
                        [state |-> "inactive", stream |-> s.stream,
                         mimeType |-> mimeType, pend |-> 0, n |-> 0,
                         got |-> <<>>]),
                   !.mediaRecorder = Len(s.recorders) + 1,
                   !.ret = TRUE]

\* this.mediaRecorder.start(1000); ret = FALSE when it throws: start() throws
\* NotSupportedError when the stream is inactive (no live track).
RecorderStart(s) ==
    LET r == s.mediaRecorder
    IN IF ~s.tracks[s.recorders[r].stream]
       THEN [s EXCEPT !.ret = FALSE]
       ELSE [s EXCEPT !.recorders[r].state = "recording", !.ret = TRUE]

\* this.mediaRecorder.stop(): nothing on an inactive recorder; otherwise the
\* recorder becomes inactive and a final dataavailable and a stop are queued.
RecorderStop(s) ==
    LET r == s.mediaRecorder
    IN IF s.recorders[r].state = "inactive"
       THEN s
       ELSE [s EXCEPT !.recorders[r].state = "inactive",
                      !.recorders[r].pend = 2]

\* ---------------------------------------------------------- VideoComponent

typesToCheck ==
    << "video/webm;codecs=vp9,opus", "video/webm;codecs=vp8,opus",
       "video/webm", "video/mp4;codecs=h264,aac", "video/mp4" >>

\* The sets of types a browser may support that the model draws from.
SupportSets ==
    { {}, {"video/webm", "video/mp4"},
      {typesToCheck[i] : i \in DOMAIN typesToCheck} }

\* setupCamera, "Stop existing stream if any"
StopExistingStream_skip(s) == s

StopExistingStream(s) ==
    IF s.stream # 0 THEN StopTracks(s, s.stream) ELSE s

\* setupCamera up to its await
VC_setupCamera(s, caller) == GetUserMedia(StopExistingStream(s), caller)

\* setupCamera after the await: the request produced stream id, or failed
VC_setupCameraResumed(s, id) ==
    IF id # 0
    THEN [s EXCEPT !.stream = id, !.ret = TRUE]
    ELSE [alert(consoleError(s, "Error setting up camera"),
                "Unable to access camera")
             EXCEPT !.ret = FALSE]

VC_switchCamera(s) ==
    VC_setupCamera([s EXCEPT !.currentCamera = Other(s.currentCamera)],
                   "switchCamera")

\* the supported types in the reverse of the preference order
checkRecordingCompatibility_reversed(s) ==
    LET types == SelectSeq(typesToCheck, LAMBDA t : t \in s.supported)
    IN [i \in 1..Len(types) |-> types[Len(types) + 1 - i]]

checkRecordingCompatibility(s) ==
    SelectSeq(typesToCheck, LAMBDA t : t \in s.supported)

VC_startRecording(s) ==
    IF s.stream = 0
    THEN [consoleError(s, "No video stream available") EXCEPT !.ret = FALSE]
    ELSE LET supportedTypes == checkRecordingCompatibility(s)
         IN IF supportedTypes = <<>>
            THEN [alert(s, "no compatible recording formats")
                     EXCEPT !.ret = FALSE]
            ELSE LET s1 == NewMediaRecorder(
                               [s EXCEPT !.recordedChunks = <<>>],
                               supportedTypes[1])
                     s2 == RecorderStart(s1)
                 IN IF s1.ret /\ s2.ret
                    THEN [s2 EXCEPT !.isRecording = TRUE, !.ret = TRUE]
                    ELSE [alert(IF s1.ret THEN s2 ELSE s1,
                                "Failed to start recording. Please try again.")
                             EXCEPT !.ret = FALSE]

VC_stopRecording(s) ==
    IF s.mediaRecorder # 0 /\ s.isRecording
    THEN [RecorderStop(s) EXCEPT !.isRecording = FALSE, !.ret = TRUE]
    ELSE [s EXCEPT !.ret = FALSE]

\* mediaRecorder.ondataavailable: the handler of every recorder appends to
\* the component's current this.recordedChunks
VC_ondataavailable(s, chunk, size) ==
    IF size > 0
    THEN [s EXCEPT !.recordedChunks = Append(s.recordedChunks, chunk)]
    ELSE s

\* downloadRecording, called by the stop event of recorder r: the file is the
\* Blob of this.recordedChunks, typed as its first chunk
VC_downloadRecording(s, r) ==
    IF Len(s.recordedChunks) = 0
    THEN consoleError(s, "No recorded data to download")
    ELSE [s EXCEPT !.saved = Append(s.saved,
                        [by |-> r, chunks |-> s.recordedChunks,
                         type |-> s.recorders[s.recordedChunks[1][1]].mimeType]),
                   !.recordedChunks = <<>>]

\* mediaRecorder.onstop
VC_onstop(s, r) == VC_downloadRecording(s, r)

\* --------------------------------------------------------- ScriptComponent

pixelsPerFrame == DEFAULT_SPEED \div ANIMATION_FPS

SC_startScroll(s) ==
    IF s.isScrolling
    THEN s
    ELSE [s EXCEPT !.isScrolling = TRUE, !.scrollAnimation = TRUE,
                   !.rafPending = TRUE]

SC_stopScroll(s) ==
    IF s.scrollAnimation
    THEN [s EXCEPT !.isScrolling = FALSE, !.rafPending = FALSE,
                   !.scrollAnimation = FALSE]
    ELSE [s EXCEPT !.isScrolling = FALSE]

SC_resetScroll(s) == [SC_stopScroll(s) EXCEPT !.scrollTop = 0]

\* startScrollAnimation on an element that would not clamp scrollTop
SC_startScrollAnimation_unclamped(s) ==
    IF ~s.isScrolling
    THEN s
    ELSE IF s.scrollTop >= s.maxScroll
         THEN SC_stopScroll(s)
         ELSE [s EXCEPT !.scrollTop = s.scrollTop + pixelsPerFrame,
                        !.scrollAnimation = TRUE, !.rafPending = TRUE]

\* startScrollAnimation, the requestAnimationFrame callback.  The browser
\* clamps an assignment to scrollTop to scrollHeight - clientHeight.
SC_startScrollAnimation(s) ==
    IF ~s.isScrolling
    THEN s
    ELSE IF s.scrollTop >= s.maxScroll
         THEN SC_stopScroll(s)
         ELSE [s EXCEPT !.scrollTop = Min(s.scrollTop + pixelsPerFrame,
                                          s.maxScroll),
                        !.scrollAnimation = TRUE, !.rafPending = TRUE]

SC_startScrolling(s) == SC_startScroll(s)

SC_stopScrolling(s) == SC_stopScroll(s)

\* ------------------------------------------------------- ControlsComponent

CC_updateRecordButton(s, on) == [s EXCEPT !.recordButton = on]

\* toggleRecording up to its await (the stop branch has none)
CC_toggleRecording(s) ==
    IF s.stream = 0
    THEN alert(s, "Please allow camera access first")
    ELSE IF s.isRecording
         THEN LET s1 == VC_stopRecording(s)
              IN IF s1.ret
                 THEN CC_updateRecordButton(SC_stopScrolling(s1), FALSE)
                 ELSE s1
         ELSE LET s1 == VC_startRecording(s)
              IN [s1 EXCEPT !.microtasks =
                                Append(s1.microtasks, [success |-> s1.ret])]

\* toggleRecording after `await this.videoComponent.startRecording()`
CC_toggleRecordingResumed(s, success) ==
    IF success
    THEN CC_updateRecordButton(SC_startScrolling(s), TRUE)
    ELSE s

\* switchCamera up to its await
CC_switchCamera(s) == VC_switchCamera(s)

\* switchCamera after `await this.videoComponent.switchCamera()`
CC_switchCameraResumed(s, id) ==
    LET s1 == VC_setupCameraResumed(s, id)
    IN IF s1.ret THEN s1 ELSE consoleError(s1, "Failed to switch camera")

CC_triggerAction(s, action) ==
    CASE action = "toggleRecording" -> CC_toggleRecording(s)
      [] action = "switchCamera" -> CC_switchCamera(s)
      [] OTHER -> s

\* ---------------------------------------------------- VideoTeleprompterApp

App_startRecording(s) == CC_triggerAction(s, "toggleRecording")

App_stopRecording(s) ==
    IF s.isRecording THEN CC_triggerAction(s, "toggleRecording") ELSE s

App_switchCamera(s) == CC_triggerAction(s, "switchCamera")

\* ------------------------------------- VideoTeleprompter (the single class)

VT_setupCamera(s, caller) == GetUserMedia(StopExistingStream(s), caller)

\* setupCamera after the await; ret = FALSE: the rejection is thrown on
VT_setupCameraResumed(s, id) ==
    IF id # 0
    THEN [s EXCEPT !.stream = id, !.ret = TRUE]
    ELSE [s EXCEPT !.ret = FALSE]

\* startScrolling without the division of the reading time by 10
durationMs_minutes(words, wpm) == (words * 60 * 1000) \div wpm

durationMs(words, wpm) == (words * 60 * 1000) \div (wpm * 10)

VT_startScrolling(s) ==
    IF s.isScrolling
    THEN s
    ELSE IF s.wordCount = 0
         THEN s
         ELSE LET s1 == [s EXCEPT !.isScrolling = TRUE, !.scrollTop = 0]
              IN IF s.maxScroll > 0
                 THEN [s1 EXCEPT !.scrollInterval = TRUE,
                                 !.timerActive = TRUE, !.scrollElapsed = 0]
                 ELSE s1

VT_stopScrolling(s) ==
    LET s1 == IF s.scrollInterval
              THEN [s EXCEPT !.timerActive = FALSE, !.scrollInterval = FALSE]
              ELSE s
    IN [s1 EXCEPT !.isScrolling = FALSE, !.scrollTop = 0]

\* updateSpeedDisplay, the 'input' listener of the speed slider
VT_updateSpeedDisplay(s) ==
    IF s.isScrolling THEN VT_startScrolling(VT_stopScrolling(s)) ELSE s

\* the setInterval callback with a clock that does not advance
VT_scrollTick_stalled(s) ==
    [s EXCEPT !.scrollTop = (s.maxScroll * s.scrollElapsed)
                                \div durationMs(s.wordCount, SpeedWPM)]

\* the setInterval callback of startScrolling, TickMs after the previous one
VT_scrollTick(s) ==
    LET elapsed == s.scrollElapsed + TickMs
        duration == durationMs(s.wordCount, SpeedWPM)
    IN IF elapsed >= duration
       THEN [s EXCEPT !.scrollElapsed = elapsed, !.scrollTop = s.maxScroll,
                      !.timerActive = FALSE]
       ELSE [s EXCEPT !.scrollElapsed = elapsed,
                      !.scrollTop = (s.maxScroll * elapsed) \div duration]

\* The MIME fallback chain of startRecording in the first class of
\* src/script.js; "" stands for no mimeType option: the browser's default.
VT_mimeType(s) ==
    IF "video/webm;codecs=vp9,opus" \in s.supported
    THEN "video/webm;codecs=vp9,opus"
    ELSE IF "video/mp4" \in s.supported
    THEN "video/mp4"
    ELSE IF "video/webm;codecs=vp8,opus" \in s.supported
    THEN "video/webm;codecs=vp8,opus"
    ELSE IF "video/webm" \in s.supported
    THEN "video/webm"
    ELSE ""

\* the catch of startRecording: the first class of src/script.js also alerts
VT_startRecordingFailed(s) ==
    IF s.variant = "script"
    THEN alert(consoleError(s, "Failed to start recording"),
               "Recording failed")
    ELSE consoleError(s, "Failed to start recording")

\* startRecording from `this.recordedChunks = []` on, inside its try
VT_startRecordingBody(s) ==
    LET s1 == NewMediaRecorder([s EXCEPT !.recordedChunks = <<>>],
                               IF s.variant = "script" THEN VT_mimeType(s)
                               ELSE typesToCheck[1])
        s2 == RecorderStart(s1)
    IN IF s1.ret /\ s2.ret
       THEN VT_startScrolling([s2 EXCEPT !.isRecording = TRUE,
                                         !.recordButton = TRUE])
       ELSE VT_startRecordingFailed(IF s1.ret THEN s2 ELSE s1)

\* startRecording up to its first await, or to its end when it has none
VT_startRecording(s) ==
    IF s.stream = 0
    THEN VT_setupCamera(s, "startRecording")
    ELSE VT_startRecordingBody(s)

\* startRecording going on after `await this.setupCamera()` as if the request
\* had been granted
VT_startRecordingResumed_ignoreFailure(s, id) ==
    VT_startRecordingBody(VT_setupCameraResumed(s, id))

\* startRecording after `await this.setupCamera()`
VT_startRecordingResumed(s, id) ==
    LET s1 == VT_setupCameraResumed(s, id)
    IN IF s1.ret
       THEN VT_startRecordingBody(s1)
       ELSE VT_startRecordingFailed(s1)

VT_stopRecording(s) ==
    IF s.mediaRecorder # 0 /\ s.isRecording
    THEN VT_stopScrolling([RecorderStop(s) EXCEPT !.isRecording = FALSE,
                                                  !.recordButton = FALSE])
    ELSE s

VT_toggleRecording(s) ==
    IF s.isRecording THEN VT_stopRecording(s) ELSE VT_startRecording(s)

\* saveRecording, called by the stop event of recorder r. The first class
\* of src/script.js returns with an alert when there are no chunks and types
\* the file as this.mediaRecorder.mimeType; the class of src/app.js has no
\* guard.
VT_saveRecording(s, r) ==
    IF s.variant = "script"
    THEN IF Len(s.recordedChunks) = 0
         THEN alert(consoleError(s, "No recording data available"),
                    "No recording data available. Recording may have failed.")
         ELSE [s EXCEPT !.saved = Append(s.saved,
                           [by |-> r, chunks |-> s.recordedChunks,
                            type |->
                              IF s.recorders[s.mediaRecorder].mimeType # ""
                              THEN s.recorders[s.mediaRecorder].mimeType
                              ELSE "video/webm"])]
    ELSE [s EXCEPT !.saved = Append(s.saved,
                      [by |-> r, chunks |-> s.recordedChunks,
                       type |-> "video/webm"])]

VT_switchCamera(s) ==
    VT_setupCamera([s EXCEPT !.currentCamera = Other(s.currentCamera)],
                   "switchCamera")

\* switchCamera after `await this.setupCamera()`, with its catch
VT_switchCameraResumed(s, id) ==
    LET s1 == VT_setupCameraResumed(s, id)
    IN IF s1.ret
       THEN s1
       ELSE [consoleError(s1, "Failed to switch camera")
                EXCEPT !.currentCamera = Other(s1.currentCamera)]

\* init after `await this.setupCamera()`, with its catch
VT_initResumed(s, id) ==
    LET s1 == VT_setupCameraResumed(s, id)
    IN IF s1.ret THEN s1 ELSE consoleError(s1, "Camera setup failed")

\* ------------------------------------------------------------ the system

\* After construction: init() has called setupCamera, whose getUserMedia
\* request is pending.
Init ==
    /\ variant \in {"components", "single"}
    /\ supported \in SupportSets
    /\ \E w \in {0, WordCount}, m \in {0, MaxScroll} :
          /\ (w = 0 => m = 0)
          /\ (variant = "components" => w = WordCount)
          /\ wordCount = w
          /\ maxScroll = m
    /\ stream = 0
    /\ mediaRecorder = 0
    /\ recordedChunks = <<>>
    /\ isRecording = FALSE
    /\ currentCamera = "user"
    /\ recordButton = FALSE
    /\ isScrolling = FALSE
    /\ scrollAnimation = FALSE
    /\ scrollInterval = FALSE
    /\ scrollTop = 0
    /\ scrollElapsed = 0
    /\ rafPending = FALSE
    /\ timerActive = FALSE
    /\ tracks = <<>>
    /\ recorders = <<>>
    /\ gum = << [caller |-> "init", held |-> 0] >>
    /\ microtasks = <<>>
    /\ saved = <<>>
    /\ lastMessage = ""
    /\ ui = UiAtRest
    /\ sw = SwAtRest

Idle == microtasks = <<>>

CanRequest == Len(gum) < MaxPending /\ Len(tracks) + Len(gum) < MaxStreams

PendingStarts ==
    Cardinality({i \in DOMAIN gum : gum[i].caller = "startRecording"})

\* a start request may create a recorder and queue a continuation
CanStart ==
    /\ Len(recorders) + PendingStarts < MaxRecorders
    /\ Len(microtasks) < MaxMicrotasks
    /\ (variant # "components" /\ stream = 0 => CanRequest)

\* the microtask checkpoint at the end of a task: the queued continuations
\* of toggleRecording run, oldest first
RECURSIVE Checkpoint(_)
Checkpoint(s) ==
    IF s.microtasks = <<>>
    THEN s
    ELSE Checkpoint(CC_toggleRecordingResumed(
                        [s EXCEPT !.microtasks = Tail(s.microtasks)],
                        Head(s.microtasks).success))

\* a click on the record button (or the keyboard shortcut): the listener
\* calls toggleRecording, and the task ends with a microtask checkpoint
ClickRecord ==
    /\ Idle
    /\ isRecording \/ CanStart \/ (variant = "components" /\ stream = 0)
    /\ IF variant = "components"
       THEN Apply(Checkpoint(CC_toggleRecording(Cur)))
       ELSE Apply(VT_toggleRecording(Cur))

\* a click on the camera button
ClickSwitchCamera ==
    /\ Idle
    /\ CanRequest
    /\ IF variant = "components"
       THEN Apply(CC_switchCamera(Cur))
       ELSE Apply(VT_switchCamera(Cur))

\* teleprompterApp.startRecording(), from any script; the script may make
\* further calls before its task ends
ApiStartRecording ==
    /\ variant = "components"
    /\ isRecording \/ CanStart \/ stream = 0
    /\ Apply(App_startRecording(Cur))

\* teleprompterApp.stopRecording(), from any script
ApiStopRecording ==
    /\ variant = "components"
    /\ Apply(App_stopRecording(Cur))

\* the calling script's task ends: the oldest continuation of
\* toggleRecording's await runs
RunMicrotask ==
    /\ microtasks # <<>>
    /\ Apply(CC_toggleRecordingResumed(
                 [Cur EXCEPT !.microtasks = Tail(microtasks)],
                 Head(microtasks).success))

GumResumed(s, caller, id) ==
    IF s.variant = "components"
    THEN CASE caller = "init" -> VC_setupCameraResumed(s, id)
           [] caller = "switchCamera" -> CC_switchCameraResumed(s, id)
    ELSE CASE caller = "init" -> VT_initResumed(s, id)
           [] caller = "switchCamera" -> VT_switchCameraResumed(s, id)
           [] caller = "startRecording" -> VT_startRecordingResumed(s, id)

\* a getUserMedia request is fulfilled with a new stream
GumResolve(i) ==
    /\ Idle
    /\ Apply(GumResumed([Cur EXCEPT !.gum = RemoveAt(gum, i),
                                    !.tracks = Append(tracks, TRUE)],
                        gum[i].caller, Len(tracks) + 1))

\* a getUserMedia request is rejected (permission denied, no device)
GumReject(i) ==
    /\ Idle
    /\ Apply(GumResumed([Cur EXCEPT !.gum = RemoveAt(gum, i)],
                        gum[i].caller, 0))

Deliver(s, r, size) ==
    LET chunk == <<r, s.recorders[r].n + 1>>
        s1 == [s EXCEPT !.recorders[r].n = @ + 1,
                        !.recorders[r].got =
                            IF size > 0 THEN Append(@, chunk) ELSE @]
    IN VC_ondataavailable(s1, chunk, size)

\* a recording recorder fires a timeslice dataavailable event
RecorderData(r, size) ==
    /\ Idle
    /\ recorders[r].state = "recording"
    /\ recorders[r].n < MaxData
    /\ Apply(Deliver(Cur, r, size))

\* a stopped recorder fires its final dataavailable event
RecorderFinalData(r, size) ==
    /\ Idle
    /\ recorders[r].pend = 2
    /\ Apply(Deliver([Cur EXCEPT !.recorders[r].pend = 1], r, size))

\* a stopped recorder fires its stop event
RecorderStopEvent(r) ==
    /\ Idle
    /\ recorders[r].pend = 1
    /\ LET s == [Cur EXCEPT !.recorders[r].pend = 0]
       IN IF variant = "components"
          THEN Apply(VC_onstop(s, r))
          ELSE Apply(VT_saveRecording(s, r))

\* the scheduled animation frame runs startScrollAnimation
AnimationFrame ==
    /\ Idle
    /\ rafPending
    /\ Apply(SC_startScrollAnimation(
                 [Cur EXCEPT !.rafPending = FALSE]))

\* the interval timer runs its callback
TimerTick ==
    /\ Idle
    /\ timerActive
    /\ Apply(VT_scrollTick(Cur))

Next ==
    \/ ClickRecord
    \/ ClickSwitchCamera
    \/ ApiStartRecording
    \/ ApiStopRecording
    \/ RunMicrotask
    \/ \E i \in DOMAIN gum : GumResolve(i)
    \/ \E i \in DOMAIN gum : GumReject(i)
    \/ \E r \in DOMAIN recorders, size \in {0, 1} : RecorderData(r, size)
    \/ \E r \in DOMAIN recorders, size \in {0, 1} : RecorderFinalData(r, size)
    \/ \E r \in DOMAIN recorders : RecorderStopEvent(r)
    \/ AnimationFrame
    \/ TimerTick

Spec == Init /\ [][Next]_vars

\* The handlers of the user's and of scripts' requests and the settlement of
\* camera requests, without the recorders' events and the scroll ticks.
NextControl ==
    \/ ClickRecord
    \/ ClickSwitchCamera
    \/ ApiStartRecording
    \/ ApiStopRecording
    \/ RunMicrotask
    \/ \E i \in DOMAIN gum : GumResolve(i)
    \/ \E i \in DOMAIN gum : GumReject(i)

SpecControl == Init /\ [][NextControl]_vars

\* ------------------------------------------------- the panel's geometry
\* A third build is modelled here, variant "legacy": the second
\* VideoTeleprompter class of src/script.js, whose gestures are those of the
\* single class and whose saveSettings persists the panel's inline geometry.

Coordinates == {k * PointerStep : k \in 0..MaxPointerSteps}

\* the points the pointer and the fingers visit
Points == {<<c, c>> : c \in Coordinates}

\* window.innerWidth and window.innerHeight
Viewports == {<<320, 570>>, <<1000, 800>>}

\* the value of an inline style property, Unset when the scripts never set it
Style(u, name) == IF name \in u.inline THEN u[name] ELSE Unset

\* localStorage.setItem(key, JSON.stringify(settings)); throws when the quota
\* is exceeded
setItem(u, settings) ==
    IF u.quota
    THEN [u EXCEPT !.thrown = TRUE]
    ELSE [u EXCEPT !.storage = settings]

\* VideoTeleprompter.saveSettings: the single class stores no geometry, the
\* legacy class stores the inline left, top, width and height
VT_saveSettings(u) ==
    setItem(u, [kind |-> "object", scriptText |-> u.scriptText,
                speed |-> u.speed, textSize |-> u.textSize,
                isTextRotated |->
                    IF variant = "legacy" THEN FALSE ELSE u.isTextRotated,
                currentCamera |->
                    IF variant = "legacy" THEN "" ELSE currentCamera,
                left |-> IF variant = "legacy" THEN Style(u, "left")
                         ELSE Unset,
                top |-> IF variant = "legacy" THEN Style(u, "top")
                        ELSE Unset,
                width |-> IF variant = "legacy" THEN Style(u, "width")
                          ELSE Unset,
                height |-> IF variant = "legacy" THEN Style(u, "height")
                           ELSE Unset])

\* A value that is neither a number nor undefined: a member that an object
\* literal inherits from Object.prototype (toString, constructor, ...).
AFunction == -2

\* JSON.stringify leaves out a property whose value is a function
stringified(value) == IF value = AFunction THEN Unset ELSE value

\* ScriptComponent._saveSettings: the failure of setItem is caught
SC_saveSettings(u) ==
    LET u1 == setItem(u, [kind |-> "object", scriptText |-> u.scriptText,
                          speed |-> stringified(u.speed),
                          textSize |-> stringified(u.textSize),
                          isTextRotated |-> u.isTextRotated,
                          currentCamera |-> "",
                          left |-> Style(u, "left"), top |-> Style(u, "top"),
                          width |-> u.width, height |-> u.height])
    IN IF u1.thrown
       THEN [u1 EXCEPT !.thrown = FALSE,
                       !.logged = "Failed to save settings"]
       ELSE u1

VT_MIN_WIDTH == 300
VT_MIN_HEIGHT == 200

startDrag(u, x, y) ==
    [u EXCEPT !.isDragging = TRUE, !.startX = x, !.startY = y,
              !.startLeft = u.left, !.startTop = u.top]

\* the panel follows the pointer without limits
drag_unclamped(u, x, y) ==
    IF ~u.isDragging
    THEN u
    ELSE [u EXCEPT !.left = u.startLeft + (x - u.startX),
                   !.top = u.startTop + (y - u.startY),
                   !.inline = @ \cup {"left", "top"}]

drag(u, x, y) ==
    IF ~u.isDragging
    THEN u
    ELSE LET newLeft == u.startLeft + (x - u.startX)
             newTop == u.startTop + (y - u.startY)
         IN [u EXCEPT !.left = Max(0, Min(newLeft, u.vw - u.width)),
                      !.top = Max(0, Min(newTop, u.vh - u.height)),
                      !.inline = @ \cup {"left", "top"}]

endDrag(u) ==
    IF u.isDragging
    THEN VT_saveSettings([u EXCEPT !.isDragging = FALSE])
    ELSE u

startResize(u, x, y) ==
    [u EXCEPT !.isResizing = TRUE, !.startX = x, !.startY = y,
              !.startWidth = u.width, !.startHeight = u.height]

\* the size limits of the single class: at least 300 x 200, at most 0.9 of
\* the window
ClampWidth(u, w) == Max(VT_MIN_WIDTH, Min(w, (u.vw * 9) \div 10))

ClampHeight(u, h) == Max(VT_MIN_HEIGHT, Min(h, (u.vh * 9) \div 10))

resize(u, x, y) ==
    IF ~u.isResizing
    THEN u
    ELSE [u EXCEPT !.width = ClampWidth(u, u.startWidth + (x - u.startX)),
                   !.height = ClampHeight(u, u.startHeight + (y - u.startY)),
                   !.inline = @ \cup {"width", "height"}]

endResize(u) ==
    IF u.isResizing
    THEN VT_saveSettings([u EXCEPT !.isResizing = FALSE])
    ELSE u

\* the two-finger branch of the touchmove listener; the sizes are whole
\* pixels
pinch(u, distance) ==
    IF u.lastDistance = 0
    THEN [u EXCEPT !.lastDistance = distance]
    ELSE [u EXCEPT
            !.width = ClampWidth(u, (u.width * distance) \div u.lastDistance),
            !.height =
                ClampHeight(u, (u.height * distance) \div u.lastDistance),
            !.inline = @ \cup {"width", "height"},
            !.lastDistance = distance]

\* the document's mouseup listener: endDrag(); endResize();
VT_mouseup(u) ==
    LET u1 == endDrag(u)
    IN IF u1.thrown THEN u1 ELSE endResize(u1)

\* the document's touchend listener
VT_touchend(u) ==
    LET u1 == VT_mouseup(u)
    IN IF u1.thrown THEN u1 ELSE [u1 EXCEPT !.lastDistance = 0]

\* ScriptComponent's edge handles
MIN_HEIGHT == 150
MIN_WIDTH == 300

\* RESIZE.MAX_WIDTH and RESIZE.MAX_HEIGHT, computed from the window when the
\* class is defined
MAX_WIDTH(u) == (u.loadVw * 9) \div 10

MAX_HEIGHT(u) == (u.loadVh * 8) \div 10

SC_startResize(u, x, y, direction) ==
    IF direction = "bottom"
    THEN [u EXCEPT !.resizeDirection = direction, !.isResizing = TRUE,
                   !.initialHeight = u.height, !.initialMouseY = y]
    ELSE [u EXCEPT !.resizeDirection = direction, !.isResizingWidth = TRUE,
                   !.initialWidth = u.width, !.initialMouseX = x]

SC_handleHeightResize(u, y) ==
    [u EXCEPT !.height = Max(MIN_HEIGHT,
                             Min(MAX_HEIGHT(u),
                                 u.initialHeight + (y - u.initialMouseY))),
              !.inline = @ \cup {"height"}]

\* the width follows the pointer without limits
SC_handleWidthResize_unclamped(u, x) ==
    [u EXCEPT !.width = IF u.resizeDirection = "right"
                        THEN u.initialWidth + (x - u.initialMouseX)
                        ELSE u.initialWidth - (x - u.initialMouseX),
              !.inline = @ \cup {"width"}]

\* the left handle keeps the right edge where it is and moves the left edge
SC_handleWidthResize_anchored(u, x) ==
    LET deltaX == x - u.initialMouseX
        newWidth == IF u.resizeDirection = "right"
                    THEN u.initialWidth + deltaX
                    ELSE u.initialWidth - deltaX
        clamped == Max(MIN_WIDTH, Min(MAX_WIDTH(u), newWidth))
    IN IF u.resizeDirection = "right"
       THEN [u EXCEPT !.width = clamped, !.inline = @ \cup {"width"}]
       ELSE [u EXCEPT !.width = clamped, !.left = @ + (u.width - clamped),
                      !.inline = @ \cup {"width", "left"}]

SC_handleWidthResize(u, x) ==
    LET deltaX == x - u.initialMouseX
        newWidth == IF u.resizeDirection = "right"
                    THEN u.initialWidth + deltaX
                    ELSE u.initialWidth - deltaX
    IN [u EXCEPT !.width = Max(MIN_WIDTH, Min(MAX_WIDTH(u), newWidth)),
                 !.inline = @ \cup {"width"}]

SC_handleResize(u, x, y) ==
    IF ~u.isResizing /\ ~u.isResizingWidth
    THEN u
    ELSE IF u.isResizing /\ u.resizeDirection = "bottom"
         THEN SC_handleHeightResize(u, y)
         ELSE IF u.isResizingWidth
              THEN SC_handleWidthResize(u, x)
              ELSE u

SC_stopResize(u) ==
    IF ~u.isResizing /\ ~u.isResizingWidth
    THEN u
    ELSE SC_saveSettings([u EXCEPT !.isResizing = FALSE,
                                   !.isResizingWidth = FALSE,
                                   !.resizeDirection = "null"])

\* the recording state machine at rest, for the specifications that are
\* about the panel and the preferences only
ControlAtRest ==
    /\ supported = {}
    /\ wordCount = 0
    /\ maxScroll = 0
    /\ stream = 0
    /\ mediaRecorder = 0
    /\ recordedChunks = <<>>
    /\ isRecording = FALSE
    /\ currentCamera = "user"
    /\ recordButton = FALSE
    /\ isScrolling = FALSE
    /\ scrollAnimation = FALSE
    /\ scrollInterval = FALSE
    /\ scrollTop = 0
    /\ scrollElapsed = 0
    /\ rafPending = FALSE
    /\ timerActive = FALSE
    /\ tracks = <<>>
    /\ recorders = <<>>
    /\ gum = <<>>
    /\ microtasks = <<>>
    /\ saved = <<>>
    /\ lastMessage = ""

controlVars ==
    <<variant, supported, wordCount, maxScroll, stream, mediaRecorder,
      recordedChunks, isRecording, currentCamera, recordButton, isScrolling,
      scrollAnimation, scrollInterval, scrollTop, scrollElapsed, rafPending,
      timerActive, tracks, recorders, gum, microtasks, saved, lastMessage>>

\* The values a gesture recorded at its start are read only while that
\* gesture is active and are overwritten when the next one starts: between
\* gestures they cannot be observed, and the model forgets them.
Forget(u) ==
    [u EXCEPT
        !.startLeft = IF u.isDragging THEN @ ELSE 0,
        !.startTop = IF u.isDragging THEN @ ELSE 0,
        !.startWidth = IF variant # "components" /\ u.isResizing
                       THEN @ ELSE 0,
        !.startHeight = IF variant # "components" /\ u.isResizing
                        THEN @ ELSE 0,
        !.startX = IF u.isDragging \/ (variant # "components" /\ u.isResizing)
                   THEN @ ELSE 0,
        !.startY = IF u.isDragging \/ (variant # "components" /\ u.isResizing)
                   THEN @ ELSE 0,
        !.initialHeight = IF variant = "components" /\ u.isResizing
                          THEN @ ELSE 0,
        !.initialMouseY = IF variant = "components" /\ u.isResizing
                          THEN @ ELSE 0,
        !.initialWidth = IF u.isResizingWidth THEN @ ELSE 0,
        !.initialMouseX = IF u.isResizingWidth THEN @ ELSE 0]

\* an event of the panel: the listener's result becomes the panel's state
Event(u) ==
    /\ ui' = Forget(u)
    /\ UNCHANGED controlVars
    /\ UNCHANGED sw

\* the panel starts at its minimum size in the window's corner
InitPanel(variants) ==
    /\ ControlAtRest
    /\ sw = SwAtRest
    /\ variant \in variants
    /\ \E v \in Viewports :
          ui = [UiAtRest EXCEPT
                   !.vw = v[1], !.vh = v[2], !.loadVw = v[1], !.loadVh = v[2],
                   !.width = IF variant = "components" THEN MIN_WIDTH
                             ELSE VT_MIN_WIDTH,
                   !.height = IF variant = "components" THEN MIN_HEIGHT
                              ELSE VT_MIN_HEIGHT]

\* the pointer is over the panel
OverPanel(x, y) ==
    /\ ui.left <= x /\ x <= ui.left + ui.width
    /\ ui.top <= y /\ y <= ui.top + ui.height

Pressed == [ui EXCEPT !.buttons = @ + 1, !.thrown = FALSE]

Touched == [ui EXCEPT !.fingers = @ + 1, !.thrown = FALSE]

\* mousedown on the header
MouseDownHeader(x, y) ==
    /\ variant # "components"
    /\ ui.buttons < MaxButtons
    /\ OverPanel(x, y)
    /\ Event(startDrag(Pressed, x, y))

\* mousedown on the resize handle
MouseDownHandle(x, y) ==
    /\ variant # "components"
    /\ ui.buttons < MaxButtons
    /\ OverPanel(x, y)
    /\ Event(startResize(Pressed, x, y))

\* mousedown on one of ScriptComponent's edge handles
MouseDownEdge(x, y, direction) ==
    /\ variant = "components"
    /\ ui.buttons < MaxButtons
    /\ OverPanel(x, y)
    /\ Event(SC_startResize(Pressed, x, y, direction))

MouseMove(x, y) ==
    LET u == [ui EXCEPT !.thrown = FALSE]
    IN IF variant = "components"
       THEN Event(SC_handleResize(u, x, y))
       ELSE Event(resize(drag(u, x, y), x, y))

MouseUp ==
    /\ ui.buttons > 0
    /\ LET u == [ui EXCEPT !.buttons = @ - 1, !.thrown = FALSE]
       IN IF variant = "components"
          THEN Event(SC_stopResize(u))
          ELSE Event(VT_mouseup(u))

\* touchstart on the header: a drag starts when it is the only finger
TouchStartHeader(x, y) ==
    /\ variant # "components"
    /\ ui.fingers < MaxFingers
    /\ OverPanel(x, y)
    /\ IF ui.fingers = 0
       THEN Event(startDrag(Touched, x, y))
       ELSE Event(Touched)

TouchStartHandle(x, y) ==
    /\ variant # "components"
    /\ ui.fingers < MaxFingers
    /\ OverPanel(x, y)
    /\ IF ui.fingers = 0
       THEN Event(startResize(Touched, x, y))
       ELSE Event(Touched)

\* a finger lands outside the header and the handle
TouchStartElsewhere ==
    /\ variant # "components"
    /\ ui.fingers < MaxFingers
    /\ Event(Touched)

\* touchmove with one finger
TouchMove(x, y) ==
    /\ variant # "components"
    /\ ui.fingers = 1
    /\ Event(resize(drag([ui EXCEPT !.thrown = FALSE], x, y), x, y))

\* touchmove with two fingers, `distance` apart
TouchPinch(distance) ==
    /\ variant # "components"
    /\ ui.fingers = 2
    /\ IF ui.isDragging
       THEN Event([ui EXCEPT !.thrown = FALSE])
       ELSE Event(pinch([ui EXCEPT !.thrown = FALSE], distance))

TouchEnd ==
    /\ variant # "components"
    /\ ui.fingers > 0
    /\ Event(VT_touchend([ui EXCEPT !.fingers = @ - 1, !.thrown = FALSE]))

\* the window is resized or the device is turned: the single and the legacy
\* class save the settings, ScriptComponent has no listener
WindowResize(v) ==
    /\ v # <<ui.vw, ui.vh>>
    /\ LET u == [ui EXCEPT !.vw = v[1], !.vh = v[2], !.thrown = FALSE]
       IN IF variant = "components"
          THEN Event(u)
          ELSE Event(VT_saveSettings(u))

\* the mouse gestures of the single class
NextMouse ==
    \/ \E v \in Viewports : WindowResize(v)
    \/ \E p \in Points : MouseDownHeader(p[1], p[2])
    \/ \E p \in Points : MouseDownHandle(p[1], p[2])
    \/ \E p \in Points : MouseMove(p[1], p[2])
    \/ MouseUp

SpecMouse == InitPanel({"single"}) /\ [][NextMouse]_vars

\* the drag and handle-resize gestures of the single class, by mouse and by
\* one finger, in a window that keeps its size
NextGestures ==
    \/ \E p \in Points : MouseDownHeader(p[1], p[2])
    \/ \E p \in Points : MouseDownHandle(p[1], p[2])
    \/ \E p \in Points : MouseMove(p[1], p[2])
    \/ MouseUp
    \/ \E p \in Points : TouchStartHeader(p[1], p[2])
    \/ \E p \in Points : TouchStartHandle(p[1], p[2])
    \/ \E p \in Points : TouchMove(p[1], p[2])
    \/ TouchEnd

SpecGestures == InitPanel({"single"}) /\ [][NextGestures]_vars

\* the touch gestures of the legacy class: one-finger drag and two-finger
\* pinch
NextTouch ==
    \/ \E v \in Viewports : WindowResize(v)
    \/ \E p \in Points : TouchStartHeader(p[1], p[2])
    \/ TouchStartElsewhere
    \/ \E p \in Points : TouchMove(p[1], p[2])
    \/ \E distance \in Coordinates \ {0} : TouchPinch(distance)
    \/ TouchEnd

SpecTouch == InitPanel({"legacy"}) /\ [][NextTouch]_vars

\* the edge handles of ScriptComponent
NextEdges ==
    \/ \E v \in Viewports : WindowResize(v)
    \/ \E p \in Points, direction \in {"bottom", "left", "right"} :
           MouseDownEdge(p[1], p[2], direction)
    \/ \E p \in Points : MouseMove(p[1], p[2])
    \/ MouseUp

SpecEdges == InitPanel({"components"}) /\ [][NextEdges]_vars

\* ------------------------------------------------------------ the claims

Recording == {r \in DOMAIN recorders : recorders[r].state = "recording"}

\* C1: in the single-class VideoTeleprompter, whatever the interleaving of
\* toggleRecording requests and pending camera acquisitions, no two
\* MediaRecorders are in the recording state at once.
C1_OneRecorderRecording ==
    variant = "single" => Cardinality(Recording) <= 1

\* C2: VideoTeleprompterApp.startRecording while a recording is active
\* leaves the recording active, with its recorder and chunks unchanged;
\* VideoTeleprompterApp.stopRecording while idle changes nothing.
C2_StartStopIdempotent ==
    [][ /\ (ApiStartRecording /\ isRecording) =>
              /\ isRecording'
              /\ mediaRecorder' = mediaRecorder
              /\ recorders' = recorders
              /\ recordedChunks' = recordedChunks
        /\ (ApiStopRecording /\ ~isRecording) => UNCHANGED vars ]_vars

\* C3: with the components, autoscroll is active only while a recording is
\* active, also when toggleRecording invocations overlap.
C3_ScrollingImpliesRecording ==
    variant = "components" => (isScrolling => isRecording)

\* C4: every saved file holds exactly the non-empty chunks its own recorder
\* delivered, in arrival order.
C4_SavedEqualsDelivered ==
    variant = "components" =>
        \A i \in DOMAIN saved : saved[i].chunks = recorders[saved[i].by].got

Finished(r) == recorders[r].state = "inactive" /\ recorders[r].pend = 0

FilesOf(r) == {i \in DOMAIN saved : saved[i].by = r}

\* the recorder delivered a non-empty chunk before it was stopped
DeliveredBeforeStop(r) ==
    \E j \in DOMAIN recorders[r].got : recorders[r].got[j][2] < recorders[r].n

\* C5: a recording stopped after delivering a non-empty chunk has, once its
\* stop event has been handled, exactly one saved file, and that file holds
\* the chunk of the final dataavailable event when that chunk is not empty.
C5_SavedOnceAfterFinalData ==
    variant = "components" =>
        \A r \in DOMAIN recorders :
            Finished(r) /\ DeliveredBeforeStop(r) =>
                /\ Cardinality(FilesOf(r)) = 1
                /\ \A i \in FilesOf(r), j \in DOMAIN recorders[r].got :
                       \E k \in DOMAIN saved[i].chunks :
                           saved[i].chunks[k] = recorders[r].got[j]

\* a stop transition made by ControlsComponent.toggleRecording
CoordinatorStop ==
    /\ variant = "components"
    /\ isRecording
    /\ ~isRecording'
    /\ ClickRecord \/ ApiStartRecording \/ ApiStopRecording

\* C7: after a stop transition made through the coordinator the script's
\* scroll offset is 0.
C7_StopResetsScroll == [][CoordinatorStop => scrollTop' = 0]_vars

\* a stop transition in either build
StopTransition ==
    /\ isRecording
    /\ ~isRecording'
    /\ ClickRecord \/ ApiStartRecording \/ ApiStopRecording

\* C8: when the stop handler returns no animation frame or timer is pending,
\* and the scroll offset is advanced only while a recording is active (never
\* between a stop and the next start).
C8_StopCancelsScroll ==
    [][ /\ StopTransition => ~rafPending' /\ ~timerActive'
        /\ scrollTop' > scrollTop => isRecording ]_vars

\* C9: with the components, every acquired stream other than the one held
\* has its tracks stopped.
C9_NoDanglingStream ==
    variant = "components" =>
        \A id \in DOMAIN tracks : id # stream => ~tracks[id]

\* a start request whose capture stream cannot be acquired: the single class
\* has its own getUserMedia request rejected; the components hold no stream
DeniedStart ==
    \/ /\ variant = "single"
       /\ \E i \in DOMAIN gum :
              gum[i].caller = "startRecording" /\ GumReject(i)
    \/ /\ variant = "components"
       /\ stream = 0
       /\ ClickRecord \/ ApiStartRecording

\* C6: a start request whose capture stream cannot be acquired changes
\* nothing: isRecording stays false, no recorder is created or started and
\* autoscroll is not started; and while no stream is held the state is Idle
\* (not recording, no recorder recording, not scrolling).
C6_DeniedStartStaysIdle ==
    /\ [](stream = 0 => ~isRecording /\ Recording = {} /\ ~isScrolling)
    /\ [][DeniedStart =>
              /\ isRecording' = isRecording
              /\ recorders' = recorders
              /\ mediaRecorder' = mediaRecorder
              /\ isScrolling' = isScrolling
              /\ rafPending' = rafPending
              /\ timerActive' = timerActive]_vars

C6_Witness ==
    /\ variant = "single"
    /\ lastMessage = "Failed to start recording"
    /\ stream = 0
    /\ ~isRecording

\* C10: while a getUserMedia request issued by switchCamera with a stream
\* held is pending, all tracks of that stream are stopped: they are stopped
\* before the request is issued, hence before it resolves.
C10_StoppedBeforeSwitchResolves ==
    \A i \in DOMAIN gum :
        gum[i].caller = "switchCamera" /\ gum[i].held # 0 =>
            ~tracks[gum[i].held]

C10_Witness ==
    \E i \in DOMAIN gum : gum[i].caller = "switchCamera" /\ gum[i].held # 0

\* an update of the height by the bottom handle, of the width by a side handle
HeightUpdate ==
    /\ variant = "components"
    /\ ui.isResizing /\ ui.resizeDirection = "bottom"
    /\ \E p \in Points : MouseMove(p[1], p[2])

WidthUpdate ==
    /\ variant = "components"
    /\ ~(ui.isResizing /\ ui.resizeDirection = "bottom")
    /\ ui.isResizingWidth
    /\ \E p \in Points : MouseMove(p[1], p[2])

\* C11 as stated: after an edge-handle update the dimension it sets lies
\* between its minimum (300 wide, 150 high) and 0.9 of the viewport's width,
\* 0.8 of the viewport's height, for every viewport.
C11_Original ==
    [][ /\ WidthUpdate =>
              MIN_WIDTH <= ui'.width /\ ui'.width * 10 <= ui'.vw * 9
        /\ HeightUpdate =>
              MIN_HEIGHT <= ui'.height /\ ui'.height * 10 <= ui'.vh * 8 ]_vars

\* C11 amended: after an edge-handle update the dimension it sets lies in
\* [MIN, MAX] whenever MIN <= MAX, where MAX_WIDTH and MAX_HEIGHT are 0.9 and
\* 0.8 of the window's size when the class was defined; when MAX < MIN the
\* dimension is MIN.
C11_EdgeResizeWithinLimits ==
    [][ /\ WidthUpdate =>
              IF MIN_WIDTH <= MAX_WIDTH(ui)
              THEN MIN_WIDTH <= ui'.width /\ ui'.width <= MAX_WIDTH(ui)
              ELSE ui'.width = MIN_WIDTH
        /\ HeightUpdate =>
              IF MIN_HEIGHT <= MAX_HEIGHT(ui)
              THEN MIN_HEIGHT <= ui'.height /\ ui'.height <= MAX_HEIGHT(ui)
              ELSE ui'.height = MIN_HEIGHT ]_vars

\* a side handle has pulled the width to its maximum
C11_Witness ==
    /\ variant = "components"
    /\ ui.isResizingWidth
    /\ "width" \in ui.inline
    /\ MIN_WIDTH < MAX_WIDTH(ui)
    /\ ui.width = MAX_WIDTH(ui)

\* a drag update of the single class: a mousemove while a drag is active
DragUpdate(p) ==
    /\ variant = "single"
    /\ ui.isDragging
    /\ MouseMove(p[1], p[2])

\* the panel lies fully inside the viewport
Inside(u) ==
    /\ 0 <= u.left /\ u.left + u.width <= u.vw
    /\ 0 <= u.top /\ u.top + u.height <= u.vh

\* the point of [lo, hi] nearest to v
Nearest(v, lo, hi) == IF v < lo THEN lo ELSE IF v > hi THEN hi ELSE v

ResizeUpdate(p) ==
    /\ variant = "single"
    /\ ui.isResizing /\ ~ui.isDragging
    /\ MouseMove(p[1], p[2])

\* C13: after every resize update the panel is not partially off-viewport:
\* left + width <= viewport width and top + height <= viewport height.
C13_ResizeKeepsPanelInside ==
    [][\A p \in Points :
          ResizeUpdate(p) =>
              /\ ui'.left + ui'.width <= ui'.vw
              /\ ui'.top + ui'.height <= ui'.vh]_vars

\* C14: a drag gesture and a resize gesture are never active at the same
\* time, whatever the sequence of mouse and touch events on the header and
\* the resize handle.
C14_DragResizeExclusive ==
    variant = "single" => ~(ui.isDragging /\ ui.isResizing)

\* the stored settings hold every geometry property the gestures have set
Persisted(u) ==
    u.inline # {} =>
        /\ u.storage.kind = "object"
        /\ \A name \in u.inline : u.storage[name] = u[name]

\* C15: when a gesture that changed the panel's geometry ends (the last
\* finger is lifted), the persisted settings contain the resulting left, top,
\* width and height.
C15_GestureEndPersistsGeometry ==
    [][variant = "legacy" /\ TouchEnd /\ ui'.fingers = 0 =>
           Persisted(ui')]_vars

\* ------------------------------------------------------------ preferences

\* the script texts the user enters
Scripts == {"", "one two three four"}

\* ControlsComponent.speedMap and sizeMap: the values the buttons set
Speeds == {60, 120, 200}
TextSizes == {18, 24, 32}

DEFAULT_TEXT_SIZE == 24

\* JavaScript truthiness of a number (an absent property is undefined) and
\* of a string
TruthyNumber(n) == n # Unset /\ n # 0
TruthyString(t) == t # ""

\* The page after the constructors have read the DOM and before the settings
\* are loaded: the script input holds the markup's text, the panel has the
\* style sheet's geometry and no inline style; localStorage outlives the
\* page.
FreshPage(u) ==
    [UiAtRest EXCEPT
        !.vw = u.vw, !.vh = u.vh, !.loadVw = u.vw, !.loadVh = u.vh,
        !.width = IF variant = "components" THEN MIN_WIDTH ELSE VT_MIN_WIDTH,
        !.height = IF variant = "components" THEN MIN_HEIGHT
                   ELSE VT_MIN_HEIGHT,
        !.pageScript = u.pageScript, !.scriptText = u.pageScript,
        !.speed = DEFAULT_SPEED, !.textSize = DEFAULT_TEXT_SIZE,
        !.storage = u.storage, !.quota = u.quota]

\* ScriptComponent._updateElementPosition
SC_updateElementPosition(u, left, top) ==
    LET u1 == IF left # Unset
              THEN [u EXCEPT !.left = left, !.inline = @ \cup {"left"}]
              ELSE u
    IN IF top # Unset
       THEN [u1 EXCEPT !.top = top, !.inline = @ \cup {"top"}]
       ELSE u1

\* ScriptComponent._applySettings. Reading a property of null throws a
\* TypeError; every property of a number, a string or {} is undefined. The
\* position object that _saveSettings writes is always truthy.
SC_applySettings(u, settings) ==
    IF settings.kind = "null"
    THEN [u EXCEPT !.thrown = TRUE]
    ELSE
    LET u1 == IF TruthyString(settings.scriptText)
              THEN [u EXCEPT !.scriptText = settings.scriptText]
              ELSE u
        u2 == IF settings.kind = "object"
              THEN SC_updateElementPosition(u1, settings.left, settings.top)
              ELSE u1
        u3 == IF TruthyNumber(settings.width)
              THEN [u2 EXCEPT !.width = settings.width,
                              !.inline = @ \cup {"width"}]
              ELSE u2
        u4 == IF TruthyNumber(settings.height)
              THEN [u3 EXCEPT !.height = settings.height,
                              !.inline = @ \cup {"height"}]
              ELSE u3
        u5 == IF TruthyNumber(settings.textSize)
              THEN [u4 EXCEPT !.textSize = settings.textSize]
              ELSE u4
        u6 == IF TruthyNumber(settings.speed)
              THEN [u5 EXCEPT !.speed = settings.speed]
              ELSE u5
    IN IF settings.isTextRotated
       THEN [u6 EXCEPT !.isTextRotated = settings.isTextRotated]
       ELSE u6

\* the body of the try block of _loadSettings: JSON.parse(getItem(key) ||
\* '{}') throws a SyntaxError on text that is not JSON
SC_parseAndApply(u) ==
    IF u.storage.kind = "malformed"
    THEN [u EXCEPT !.thrown = TRUE]
    ELSE SC_applySettings(u, u.storage)

SC_loadSettings_uncaught(u) == SC_parseAndApply(u)

\* ScriptComponent._loadSettings
SC_loadSettings(u) ==
    LET r == SC_parseAndApply(u)
    IN IF r.thrown
       THEN [r EXCEPT !.thrown = FALSE, !.logged = "Failed to load settings"]
       ELSE r

\* ScriptComponent.init
SC_init(u) == SC_loadSettings(u)

\* the body of the try block of VideoTeleprompter.loadSettings; the camera
\* preference is applied by VT_loadedCamera
VT_parseAndApply(u) ==
    LET settings == u.storage
    IN IF settings.kind \in {"malformed", "null"}
       THEN [u EXCEPT !.thrown = TRUE]
       ELSE
       LET u1 == IF TruthyString(settings.scriptText)
                 THEN [u EXCEPT !.scriptText = settings.scriptText]
                 ELSE u
           u2 == IF TruthyNumber(settings.speed)
                 THEN [u1 EXCEPT !.speed = settings.speed]
                 ELSE u1
           u3 == IF TruthyNumber(settings.textSize)
                 THEN [u2 EXCEPT !.textSize = settings.textSize]
                 ELSE u2
       IN IF settings.isTextRotated
          THEN [u3 EXCEPT !.isTextRotated = settings.isTextRotated]
          ELSE u3

\* VideoTeleprompter.loadSettings
VT_loadSettings(u) ==
    IF u.storage.kind = "missing"
    THEN u
    ELSE LET r == VT_parseAndApply(u)
         IN IF r.thrown
            THEN [r EXCEPT !.thrown = FALSE,
                           !.logged = "Failed to load settings"]
            ELSE r

\* this.currentCamera after the constructor and loadSettings
VT_loadedCamera(u) ==
    IF variant = "single" /\ u.storage.kind = "object"
       /\ TruthyString(u.storage.currentCamera)
    THEN u.storage.currentCamera
    ELSE "user"

\* the settings part of VideoTeleprompter.init
VT_init(u) == VT_loadSettings(u)

\* ScriptComponent.setSpeed, setTextSize, toggleRotation and setContent
\* setSpeed without its call of _saveSettings
SC_setSpeed_unsaved(u, speed) == [u EXCEPT !.speed = speed]

SC_setSpeed(u, speed) == SC_saveSettings([u EXCEPT !.speed = speed])

SC_setTextSize(u, size) == SC_saveSettings([u EXCEPT !.textSize = size])

SC_toggleRotation(u) ==
    SC_saveSettings([u EXCEPT !.isTextRotated = ~u.isTextRotated])

SC_setContent(u, content) ==
    SC_saveSettings([u EXCEPT !.scriptText = content])

\* ControlsComponent's speedMap and sizeMap, looked up with any string:
\* speedMap[value] is the map's own entry, a member inherited from
\* Object.prototype, or undefined
SpeedTypes == {"slow", "normal", "fast"}
SizeTypes == {"small", "medium", "large"}
InheritedNames == {"toString"}

speedMap(value) ==
    CASE value = "slow" -> 60
      [] value = "normal" -> 120
      [] value = "fast" -> 200
      [] value \in InheritedNames -> AFunction
      [] OTHER -> Unset

sizeMap(value) ==
    CASE value = "small" -> 18
      [] value = "medium" -> 24
      [] value = "large" -> 32
      [] value \in InheritedNames -> AFunction
      [] OTHER -> Unset

\* a comparison of a function with a number is false
getSpeedTypeFromValue(speed) ==
    IF speed # AFunction /\ speed <= 60 THEN "slow"
    ELSE IF speed # AFunction /\ speed <= 120 THEN "normal"
    ELSE "fast"

getSizeTypeFromValue(size) ==
    IF size # AFunction /\ size <= 18 THEN "small"
    ELSE IF size # AFunction /\ size <= 24 THEN "medium"
    ELSE "large"

\* every button loses 'active', the button of activeType gets it
CC_updateSpeedButtons(u, activeType) ==
    [u EXCEPT !.speedActive = {activeType} \cap SpeedTypes]

CC_updateSizeButtons(u, activeType) ==
    [u EXCEPT !.sizeActive = {activeType} \cap SizeTypes]

CC_updateButtonStates(u) ==
    CC_updateSizeButtons(
        CC_updateSpeedButtons(u, getSpeedTypeFromValue(u.speed)),
        getSizeTypeFromValue(u.textSize))

CC_setSpeed(u, speedType) ==
    CC_updateSpeedButtons(SC_setSpeed(u, speedMap(speedType)), speedType)

CC_setTextSize(u, sizeType) ==
    CC_updateSizeButtons(SC_setTextSize(u, sizeMap(sizeType)), sizeType)

\* triggerAction for the actions on the script panel; value = "" stands
\* for null. A function is truthy.
CC_triggerPanelAction(u, action, value) ==
    CASE action = "toggleRotation" -> SC_toggleRotation(u)
      [] action = "setSpeed" ->
            IF TruthyString(value) /\ speedMap(value) \notin {Unset, 0}
            THEN CC_setSpeed(u, value)
            ELSE u
      [] action = "setTextSize" ->
            IF TruthyString(value) /\ sizeMap(value) \notin {Unset, 0}
            THEN CC_setTextSize(u, value)
            ELSE u
      [] OTHER -> u

\* VideoTeleprompterApp.initializeComponents, for the script panel:
\* ScriptComponent loads the settings, then ControlsComponent.init marks the
\* buttons
App_initializeComponents(u) == CC_updateButtonStates(SC_init(u))

\* VideoTeleprompter.toggleTextRotation
VT_toggleTextRotation(u) ==
    VT_saveSettings([u EXCEPT !.isTextRotated = ~u.isTextRotated])

\* the panel of an earlier session of the page, from which the stored
\* settings were written
EarlierPanels ==
    {[UiAtRest EXCEPT
        !.scriptText = t, !.speed = s, !.textSize = z, !.isTextRotated = r,
        !.width = (IF variant = "components" THEN MIN_WIDTH
                   ELSE VT_MIN_WIDTH) + w,
        !.height = IF variant = "components" THEN MIN_HEIGHT
                   ELSE VT_MIN_HEIGHT,
        !.left = IF c = Unset THEN 0 ELSE c,
        !.top = IF c = Unset THEN 0 ELSE c,
        !.inline = IF c = Unset THEN {} ELSE {"left", "top"}] :
     t \in Scripts, s \in Speeds, z \in TextSizes, r \in BOOLEAN,
     w \in {0, PointerStep}, c \in {Unset, 0, PointerStep}}

\* What localStorage holds when the page is opened: nothing, text that is
\* not JSON, the JSON text null, a JSON number or string, or the settings an
\* earlier session saved.
InitialStorages ==
    {[StorageMissing EXCEPT !.kind = k] :
        k \in {"missing", "malformed", "null", "primitive"}}
    \cup {(IF variant = "components" THEN SC_saveSettings(p)
           ELSE VT_saveSettings(p)).storage : p \in EarlierPanels}

\* the variables of the recording state machine other than currentCamera
controlVarsButCamera ==
    <<variant, supported, wordCount, maxScroll, stream, mediaRecorder,
      recordedChunks, isRecording, recordButton, isScrolling,
      scrollAnimation, scrollInterval, scrollTop, scrollElapsed, rafPending,
      timerActive, tracks, recorders, gum, microtasks, saved, lastMessage>>

\* the page has been opened: the constructor has run and has loaded the
\* settings
InitSettings ==
    /\ ControlAtRest
    /\ sw = SwAtRest
    /\ variant \in {"components", "single"}
    /\ \E t \in Scripts, q \in BOOLEAN, st \in InitialStorages :
          LET page == FreshPage([UiAtRest EXCEPT
                                    !.vw = 1000, !.vh = 800,
                                    !.pageScript = t, !.storage = st,
                                    !.quota = q])
          IN ui = IF variant = "components"
                  THEN App_initializeComponents(page)
                  ELSE VT_init(page)

\* the changes of one event, starting from a listener that has not thrown
Listening == [ui EXCEPT !.thrown = FALSE, !.logged = ""]

\* the page is opened again
PageLoad ==
    /\ ui' = IF variant = "components"
             THEN App_initializeComponents(FreshPage(ui))
             ELSE VT_init(FreshPage(ui))
    /\ currentCamera' = VT_loadedCamera(ui)
    /\ UNCHANGED <<controlVarsButCamera, sw>>

\* a click on a speed button; a change of the speed slider
SetSpeed(speed) ==
    IF variant = "components"
    THEN \E speedType \in SpeedTypes :
             /\ speedMap(speedType) = speed
             /\ Event(CC_setSpeed(Listening, speedType))
    ELSE Event(VT_saveSettings([Listening EXCEPT !.speed = speed]))

\* a click on a size button; a change of the text size slider
SetTextSize(size) ==
    IF variant = "components"
    THEN \E sizeType \in SizeTypes :
             /\ sizeMap(sizeType) = size
             /\ Event(CC_setTextSize(Listening, sizeType))
    ELSE Event(VT_saveSettings([Listening EXCEPT !.textSize = size]))

\* a click on the rotate button
ToggleRotation ==
    IF variant = "components"
    THEN Event(SC_toggleRotation(Listening))
    ELSE Event(VT_toggleTextRotation(Listening))

\* ScriptComponent.setContent; an input event of the script input
SetContent(content) ==
    IF variant = "components"
    THEN Event(SC_setContent(Listening, content))
    ELSE Event(VT_saveSettings([Listening EXCEPT !.scriptText = content]))

NextSettings ==
    \/ PageLoad
    \/ \E speed \in Speeds : SetSpeed(speed)
    \/ \E size \in TextSizes : SetTextSize(size)
    \/ ToggleRotation
    \/ \E content \in Scripts : SetContent(content)

SpecSettings == InitSettings /\ [][NextSettings]_vars

\* the preferences of the page: what it shows and what a save would write
Preferences(u) ==
    [scriptText |-> u.scriptText, speed |-> u.speed,
     textSize |-> u.textSize, isTextRotated |-> u.isTextRotated,
     width |-> u.width, height |-> u.height,
     left |-> Style(u, "left"), top |-> Style(u, "top")]

\* the preferences a settings object holds
Stored(settings) ==
    [scriptText |-> settings.scriptText, speed |-> settings.speed,
     textSize |-> settings.textSize,
     isTextRotated |-> settings.isTextRotated,
     width |-> settings.width, height |-> settings.height,
     left |-> settings.left, top |-> settings.top]

\* C16: round trip: the preferences that ScriptComponent._saveSettings has
\* stored are, after the next page load has applied them, the preferences
\* of the page, field for field.
C16_SaveLoadRoundTrip ==
    [][variant = "components" /\ ui.storage.kind = "object" /\ PageLoad =>
           Preferences(ui') = Stored(ui.storage)]_vars

\* C17: loading the settings never throws to its caller: when the storage
\* key is missing or holds text that is not JSON or JSON that is not an
\* object, the load completes and the page continues with the default
\* preferences.
C17_LoadFailsSoft ==
    [][PageLoad /\ ui.storage.kind # "object" =>
           /\ ~ui'.thrown
           /\ Preferences(ui') = Preferences(FreshPage(ui))]_vars

\* a page that has caught the failure of loading unusable settings and
\* shows the defaults
C17_Witness ==
    /\ ui.storage.kind \in {"malformed", "null"}
    /\ ui.logged = "Failed to load settings"
    /\ ~ui.thrown
    /\ Preferences(ui) = Preferences(FreshPage(ui))

\* C18: when the storage write fails, no exception reaches the operation
\* that triggered the save: no listener of a preference change ends with an
\* exception.
C18_SaveFailureSwallowed == ui.quota => ~ui.thrown

\* ------------------------------------------------------- scroll duration

\* Values of the speed slider. They divide 6000, so that the duration, which
\* JavaScript computes in floating point, is a whole number of milliseconds
\* and the integer division of durationMs is exact.
SliderSpeeds == {60, 100, 120, 150, 200, 240}

\* the duration computation of VideoTeleprompter.startScrolling; an empty
\* script returns before it
VT_duration(u, words) ==
    IF words = 0
    THEN u
    ELSE [u EXCEPT !.duration = durationMs(words, u.speed)]

\* the recording state machine at rest, with a script of `words` words that
\* overflows its box by `overflow` pixels
ScriptAtRest(words, overflow) ==
    /\ supported = {}
    /\ wordCount = words
    /\ maxScroll = overflow
    /\ stream = 0
    /\ mediaRecorder = 0
    /\ recordedChunks = <<>>
    /\ isRecording = FALSE
    /\ currentCamera = "user"
    /\ recordButton = FALSE
    /\ isScrolling = FALSE
    /\ scrollAnimation = FALSE
    /\ scrollInterval = FALSE
    /\ scrollTop = 0
    /\ scrollElapsed = 0
    /\ rafPending = FALSE
    /\ timerActive = FALSE
    /\ tracks = <<>>
    /\ recorders = <<>>
    /\ gum = <<>>
    /\ microtasks = <<>>
    /\ saved = <<>>
    /\ lastMessage = ""

\* a script of some number of words and a position of the speed slider
InitDuration ==
    /\ \E words \in 0..MaxWords : ScriptAtRest(words, 0)
    /\ variant = "single"
    /\ \E speed \in SliderSpeeds : ui = [UiAtRest EXCEPT !.speed = speed]
    /\ sw = SwAtRest

\* startScrolling computes the duration of the scroll
ComputeDuration ==
    /\ ui.duration = Unset
    /\ wordCount > 0
    /\ Event(VT_duration(ui, wordCount))

NextDuration == ComputeDuration

SpecDuration == InitDuration /\ [][NextDuration]_vars

\* C19 as stated: the duration is w/s/10 x 60000 ms, positive for w > 0,
\* and 2000 ms for 4 words at 120 WPM.
C19_Original ==
    ui.duration # Unset =>
        /\ ui.duration * ui.speed * 10 = wordCount * 60000
        /\ ui.duration > 0
        /\ (wordCount = 4 /\ ui.speed = 120 => ui.duration = 2000)

\* C19: for every word count w > 0 and speed s the duration computed by
\* startScrolling is w/s/10 x 60000 ms and is positive; 4 words at 120 WPM
\* give 200 ms.
C19_DurationFormula ==
    ui.duration # Unset =>
        /\ ui.duration * ui.speed * 10 = wordCount * 60000
        /\ ui.duration > 0
        /\ (wordCount = 4 /\ ui.speed = 120 => ui.duration = 200)

\* the duration of a 4-word script at 120 WPM has been computed
C19_Witness ==
    /\ wordCount = 4
    /\ ui.speed = 120
    /\ ui.duration = 200

\* ------------------------------------------------------------ autoscroll

\* a script in its box, not scrolling
InitScroll ==
    /\ variant \in {"components", "single"}
    /\ \E words \in 0..MaxWords, overflow \in 0..MaxOffset :
          /\ (words = 0 => overflow = 0)
          /\ ScriptAtRest(words, overflow)
    /\ ui = UiAtRest
    /\ sw = SwAtRest

\* ScriptComponent.startScrolling; VideoTeleprompter.startScrolling
StartScrolling ==
    Apply(IF variant = "components" THEN SC_startScrolling(Cur)
          ELSE VT_startScrolling(Cur))

\* ScriptComponent.stopScrolling; VideoTeleprompter.stopScrolling
StopScrolling ==
    Apply(IF variant = "components" THEN SC_stopScrolling(Cur)
          ELSE VT_stopScrolling(Cur))

\* the user moves the speed slider of the single class
SpeedInput ==
    /\ variant = "single"
    /\ Apply(VT_updateSpeedDisplay(Cur))

NextScroll ==
    \/ StartScrolling
    \/ StopScrolling
    \/ SpeedInput
    \/ AnimationFrame
    \/ TimerTick

SpecScroll == InitScroll /\ [][NextScroll]_vars

Recordable == {typesToCheck[i] : i \in DOMAIN typesToCheck} \cup {""}

\* the texts of alert(), which differ from those of console.error()
AlertTexts ==
    {"Unable to access camera", "no compatible recording formats",
     "Failed to start recording. Please try again.",
     "Please allow camera access first", "Recording failed",
     "No recording data available. Recording may have failed.",
     "limited video recording support"}

\* checkCompatibility of the first class of src/script.js, called by init
VT_checkCompatibility(s) ==
    IF s.supported \cap {"video/webm;codecs=vp9,opus",
                         "video/webm;codecs=vp8,opus", "video/webm",
                         "video/mp4"} = {}
    THEN alert(s, "limited video recording support")
    ELSE s

\* After construction, in a browser with any recording support: init() has
\* called setupCamera, whose getUserMedia request is pending.
InitMime ==
    /\ variant \in {"components", "script"}
    /\ supported \in SUBSET Recordable
    /\ wordCount = WordCount
    /\ maxScroll = MaxScroll
    /\ stream = 0
    /\ mediaRecorder = 0
    /\ recordedChunks = <<>>
    /\ isRecording = FALSE
    /\ currentCamera = "user"
    /\ recordButton = FALSE
    /\ isScrolling = FALSE
    /\ scrollAnimation = FALSE
    /\ scrollInterval = FALSE
    /\ scrollTop = 0
    /\ scrollElapsed = 0
    /\ rafPending = FALSE
    /\ timerActive = FALSE
    /\ tracks = <<>>
    /\ recorders = <<>>
    /\ gum = << [caller |-> "init", held |-> 0] >>
    /\ microtasks = <<>>
    /\ saved = <<>>
    /\ lastMessage =
          IF variant = "script"
          THEN VT_checkCompatibility(
                   [supported |-> supported, lastMessage |-> ""]).lastMessage
          ELSE ""
    /\ ui = UiAtRest
    /\ sw = SwAtRest

SpecMime == InitMime /\ [][NextControl]_vars

\* the entries of the probed list before the recorder's type
Earlier(mimeType) ==
    {typesToCheck[i] : i \in {j \in DOMAIN typesToCheck :
        \A k \in DOMAIN typesToCheck : typesToCheck[k] = mimeType => j < k}}

\* C21: VideoComponent creates the recorder with the first supported entry
\* of the probed list: its type is supported and no earlier entry is.
C21_FirstSupportedType ==
    variant = "components" =>
        \A r \in DOMAIN recorders :
            /\ recorders[r].mimeType \in supported \ {""}
            /\ Earlier(recorders[r].mimeType) \cap supported = {}

\* only the third entry and later ones are supported, and a recorder has
\* been created
C21_Witness ==
    /\ variant = "components"
    /\ supported = {"video/webm", "video/mp4"}
    /\ recorders # <<>>
    /\ recorders[1].mimeType = "video/webm"

\* the types a start request of the build probes
Probed ==
    IF variant = "components"
    THEN {typesToCheck[i] : i \in DOMAIN typesToCheck}
    ELSE {"video/webm;codecs=vp9,opus", "video/mp4",
          "video/webm;codecs=vp8,opus", "video/webm"}

\* a click on the record button of a page that holds a stream and is not
\* recording
StartRequest ==
    /\ stream # 0
    /\ ~isRecording
    /\ ClickRecord

\* C22: if none of the probed MIME types is supported, a start request
\* alerts the user and starts nothing: no recorder is created, isRecording
\* stays false and the autoscroll is not started.
C22_NoSupportedTypeNoRecording ==
    [][supported \cap Probed = {} /\ StartRequest =>
           /\ recorders' = recorders
           /\ ~isRecording'
           /\ ~isScrolling'
           /\ lastMessage' \in AlertTexts]_vars

\* C23: when a recorder's stop event fires and the chunk sequence is empty,
\* no file is produced and the user is shown an alert.
C23_EmptyRecordingAlerts ==
    [][\A r \in DOMAIN recorders :
          recordedChunks = <<>> /\ RecorderStopEvent(r) =>
              /\ saved' = saved
              /\ lastMessage' \in AlertTexts]_vars

\* an autoscroll job is active: a tick is scheduled
JobActive == isScrolling /\ (rafPending \/ timerActive)

\* the state a request to start the autoscroll leads to
AfterStartRequest ==
    IF variant = "components" THEN SC_startScrolling(Cur)
    ELSE VT_startScrolling(Cur)

\* C24: a request to start the autoscroll while a job is active cancels the
\* job and starts a new one from offset 0.
C24_StartWhileActiveRestarts ==
    JobActive =>
        /\ AfterStartRequest.scrollTop = 0
        /\ AfterStartRequest.isScrolling
        /\ AfterStartRequest.rafPending \/ AfterStartRequest.timerActive
        /\ variant = "single" => AfterStartRequest.scrollElapsed = 0

\* C25: when the autoscroll is started on a script without scrollable
\* overflow, no job is created: no timer and no animation frame is
\* scheduled and the engine does not become active.
C25_NoOverflowNoJob ==
    [][maxScroll <= 0 /\ ~isScrolling /\ StartScrolling =>
           /\ ~rafPending'
           /\ ~timerActive'
           /\ ~isScrolling']_vars

\* An autoscroll that nobody cancels: after the start only the ticks run.
\* The browser runs a scheduled animation frame and a due interval callback.
NextScrollRun ==
    \/ StartScrolling
    \/ AnimationFrame
    \/ TimerTick

SpecScrollRun ==
    /\ InitScroll
    /\ [][NextScrollRun]_vars
    /\ WF_vars(AnimationFrame)
    /\ WF_vars(TimerTick)

\* C26: an autoscroll job over overflowing content that is not cancelled
\* eventually stops by itself, and once no job is active no tick changes
\* the scroll offset.
C26_JobStopsByItself ==
    /\ JobActive ~> ~JobActive
    /\ [][~JobActive /\ (TimerTick \/ AnimationFrame) =>
              scrollTop' = scrollTop]_vars

\* a job has run to the bottom of an overflowing script and has stopped
C26_Witness ==
    /\ maxScroll > 0
    /\ scrollTop = maxScroll
    /\ ~rafPending
    /\ ~timerActive

\* ------------------------------------------------- immediate persistence

\* the components build opened with nothing stored and a working storage
InitPersist ==
    /\ ControlAtRest
    /\ sw = SwAtRest
    /\ variant = "components"
    /\ \E t \in Scripts :
          ui = App_initializeComponents(FreshPage([UiAtRest EXCEPT
                                     !.vw = 1000, !.vh = 800,
                                     !.pageScript = t]))

\* the preference changes and the edge resize of ScriptComponent, one mouse
\* button at a time
NextPersist ==
    \/ \E speed \in Speeds : SetSpeed(speed)
    \/ \E size \in TextSizes : SetTextSize(size)
    \/ ToggleRotation
    \/ \E content \in Scripts : SetContent(content)
    \/ \E p \in Points, direction \in {"bottom", "left", "right"} :
           ui.buttons = 0 /\ MouseDownEdge(p[1], p[2], direction)
    \/ \E p \in Points : MouseMove(p[1], p[2])
    \/ MouseUp

SpecPersist == InitPersist /\ [][NextPersist]_vars

\* the stored settings hold the page's current preferences and panel size
Saved(u) ==
    /\ u.storage.kind = "object"
    /\ u.storage.speed = u.speed
    /\ u.storage.textSize = u.textSize
    /\ u.storage.isTextRotated = u.isTextRotated
    /\ u.storage.scriptText = u.scriptText
    /\ u.storage.width = u.width
    /\ u.storage.height = u.height

\* a mouseup that ends an edge resize
ResizeEnd == (ui.isResizing \/ ui.isResizingWidth) /\ MouseUp

InitPlaced ==
    /\ ControlAtRest
    /\ sw = SwAtRest
    /\ variant = "components"
    /\ \E v \in Viewports, c \in Coordinates \cup {Unset} :
          ui = App_initializeComponents(FreshPage(
                   [UiAtRest EXCEPT
                       !.vw = v[1], !.vh = v[2],
                       !.storage = [StorageMissing EXCEPT
                                       !.kind = "object",
                                       !.left = c, !.top = c]]))

SpecPlaced == InitPlaced /\ [][NextEdges]_vars

\* a step of an edge-handle gesture: the press on a handle, an update, or
\* the release that ends it
EdgeStart ==
    \E p \in Points, direction \in {"bottom", "left", "right"} :
        MouseDownEdge(p[1], p[2], direction)

Position(u) == <<u.left, u.top, Style(u, "left"), Style(u, "top")>>

\* C28: an edge-handle gesture never writes the panel's position, an update
\* by the bottom handle changes only the height, an update by the left or
\* the right handle changes only the width, and the press and the release
\* change neither dimension.
C28_EdgeResizeKeepsPosition ==
    [][ /\ EdgeStart \/ HeightUpdate \/ WidthUpdate \/ ResizeEnd =>
              Position(ui') = Position(ui)
        /\ HeightUpdate => ui'.width = ui.width
        /\ WidthUpdate => ui'.height = ui.height
        /\ EdgeStart \/ ResizeEnd =>
              ui'.width = ui.width /\ ui'.height = ui.height ]_vars

\* the left handle has widened a panel that was placed away from the origin
C28_Witness ==
    /\ variant = "components"
    /\ ui.isResizingWidth /\ ui.resizeDirection = "left"
    /\ ui.width > ui.initialWidth
    /\ ui.left > 0 /\ "left" \in ui.inline

\* --------------------------------------------- C29: a failed camera switch

\* request i is the only pending request of switchCamera
OnlySwitch(i) ==
    /\ gum[i].caller = "switchCamera"
    /\ \A j \in DOMAIN gum : gum[j].caller = "switchCamera" => j = i

\* C29 as stated: when the request of a camera switch is rejected,
\* currentCamera is again what it was before the switch was requested.  The
\* request toggled currentCamera and, with no other switch pending, nothing
\* has changed it since, so the value before the request is the other one
\* than the value at the rejection.
C29_FailedSwitchReverts ==
    [][ \A i \in DOMAIN gum :
            OnlySwitch(i) /\ GumReject(i) =>
                currentCamera' = Other(currentCamera) ]_vars

\* ------------------------------ C30: the recorded stream stays live

\* C30 as stated: in the components build, while isRecording is true the
\* tracks of the stream the current recorder was created on have not been
\* stopped.
C30_RecordedStreamLive ==
    variant = "components" /\ isRecording /\ mediaRecorder # 0 =>
        tracks[recorders[mediaRecorder].stream]

\* ------------------------------------- C31: hasStream and live tracks

\* getRecordingState().hasStream: !!this.stream
hasStream == stream # 0

\* C31 as stated: in the components build, whenever hasStream is true the
\* held stream has live tracks.
C31_HeldStreamLive ==
    variant = "components" /\ hasStream => tracks[stream]

\* ------------------------------- C32: the record button's indicator

\* C32 as stated: in the components build, whenever no invocation of
\* toggleRecording is in progress (none is suspended at its await), the
\* record button carries the class 'recording' exactly when isRecording is
\* true.
C32_ButtonShowsRecording ==
    variant = "components" /\ microtasks = <<>> =>
        (recordButton <=> isRecording)

\* ------------------------- C33, C34: the speed and size buttons, the API

\* the action names and the values that scripts pass to triggerAction
\* through VideoTeleprompterApp.setSpeed / setTextSize and the keyboard
\* shortcuts; "" stands for a missing value
ActionNames == {"setSpeed", "setTextSize", "toggleRotation", "unknown"}
ActionValues == SpeedTypes \cup SizeTypes \cup InheritedNames \cup {"huge", ""}

InitButtons ==
    /\ ControlAtRest
    /\ sw = SwAtRest
    /\ variant = "components"
    /\ \E t \in Scripts, st \in InitialStorages :
          ui = App_initializeComponents(
                   FreshPage([UiAtRest EXCEPT
                                 !.vw = 1000, !.vh = 800,
                                 !.pageScript = t, !.storage = st]))

\* controlsComponent.triggerAction(action, value), from the keyboard
\* shortcuts and from the public methods of VideoTeleprompterApp
TriggerAction(action, value) ==
    /\ variant = "components"
    /\ Event(CC_triggerPanelAction(Listening, action, value))

NextButtons ==
    \/ PageLoad
    \/ \E speed \in Speeds : SetSpeed(speed)
    \/ \E size \in TextSizes : SetTextSize(size)
    \/ ToggleRotation
    \/ \E action \in ActionNames, value \in ActionValues :
           TriggerAction(action, value)

SpecButtons == InitButtons /\ [][NextButtons]_vars

\* C33 as stated: after initialization and after any sequence of setSpeed /
\* setTextSize actions exactly one speed button and exactly one size button
\* is marked active, and they are the buttons of getSpeedTypeFromValue(speed)
\* and getSizeTypeFromValue(text size).
C33_OneActiveButton ==
    variant = "components" =>
        /\ ui.speedActive = {getSpeedTypeFromValue(ui.speed)}
        /\ ui.sizeActive = {getSizeTypeFromValue(ui.textSize)}

\* the panel after triggerAction(action, value)
Triggered(action, value) ==
    Forget(CC_triggerPanelAction(Listening, action, value))

\* what C34 lists: speed, text size, rotation and the persisted settings
Settings(u) == <<u.speed, u.textSize, u.isTextRotated, u.storage>>

\* C34 as stated: triggerAction with an unknown action name, or with
\* setSpeed / setTextSize and a value that is not a key of the map, leaves
\* the speed, the text size, the rotation and the persisted settings
\* unchanged, and a setSpeed request either leaves the speed as it is or
\* sets it to one of 60, 120, 200.
C34_InvalidRequestIgnored ==
    variant = "components" =>
        /\ \A value \in ActionValues :
               Settings(Triggered("unknown", value)) = Settings(ui)
        /\ \A value \in ActionValues \ SpeedTypes :
               Settings(Triggered("setSpeed", value)) = Settings(ui)
        /\ \A value \in ActionValues \ SizeTypes :
               Settings(Triggered("setTextSize", value)) = Settings(ui)
        /\ \A value \in ActionValues :
               Triggered("setSpeed", value).speed \in Speeds \cup {ui.speed}

\* ------------------------------------------------------ C35: destroy

VC_destroy(s) ==
    LET s1 == IF s.stream # 0 THEN StopTracks(s, s.stream) ELSE s
    IN IF s1.mediaRecorder # 0 /\ s1.isRecording
       THEN VC_stopRecording(s1)
       ELSE s1

\* VideoTeleprompterApp.destroy: only the video component is destroyed
App_destroy(s) == VC_destroy(s)

\* teleprompterApp.destroy(), from any script
ApiDestroy ==
    /\ variant = "components"
    /\ Apply(App_destroy(Cur))

NextDestroy ==
    \/ NextControl
    \/ AnimationFrame
    \/ ApiDestroy

SpecDestroy == Init /\ [][NextDestroy]_vars

\* C35 as stated: whatever the state destroy() is invoked in, after it all
\* tracks of the capture stream are stopped, isRecording is false and no
\* animation-frame callback of the autoscroll is pending.
C35_DestroyReleasesAll ==
    variant = "components" =>
        LET s == App_destroy(Cur)
        IN /\ s.stream # 0 => ~s.tracks[s.stream]
           /\ ~s.isRecording
           /\ ~s.rafPending

\* ------------------------------------------------- the service worker

CACHE_NAME == "teleprompter-v1.0.0"

\* the caches an earlier version of the worker may have left behind
StaleCacheNames == {"teleprompter-v0.9.0", "teleprompter-v0.8.0"}

STATIC_ASSETS == {"/index.html", "/app.js"}

\* a stored response: the cache it is in, the request's URL, the response's
\* status and type, and the handler that stored it
Stored200(cache, url, by) ==
    [cache |-> cache, url |-> url, status |-> 200, type |-> "basic",
     by |-> by]

\* caches.open(name): the cache is created when it does not exist
SW_open(w, name) == [w EXCEPT !.caches = @ \cup {name}]

\* caches.delete(name)
SW_delete(w, name) ==
    [w EXCEPT !.caches = @ \ {name},
              !.cached = {e \in @ : e.cache # name}]

\* cache.put / cache.addAll of one response: it replaces the stored response
\* of the same URL
SW_put(w, entry) ==
    [w EXCEPT !.cached = {e \in @ : e.cache # entry.cache \/ e.url # entry.url}
                         \cup {entry}]

\* caches.match(url): some cache of the origin holds a response for it
SW_match(w, url) == \E e \in w.cached : e.url = url

\* the install listener, up to the settlement of its promise chain. The
\* outcome is that of caches.open and cache.addAll, which stores all assets
\* or none; the chain's catch turns a failure into a fulfilled promise.
SW_install(w, outcome) ==
    IF outcome = "openFailed"
    THEN [w EXCEPT !.state = "installed"]
    ELSE LET w1 == SW_open(w, CACHE_NAME)
             w2 == IF outcome = "cached"
                   THEN [w1 EXCEPT !.cached =
                            {e \in @ : e.cache # CACHE_NAME
                                       \/ e.url \notin STATIC_ASSETS}
                            \cup {Stored200(CACHE_NAME, url, "install") :
                                     url \in STATIC_ASSETS}]
                   ELSE w1
         IN [w2 EXCEPT !.state = "installed"]

\* nothing is deleted
ShouldDelete_never(cacheName) == FALSE

\* the test of the activate listener's map callback
ShouldDelete(cacheName) == cacheName # CACHE_NAME

\* the activate listener after caches.keys() has resolved: caches.delete is
\* called for every stale name
SW_activateKeys(w) ==
    [w EXCEPT !.state = "deleting", !.keys = w.caches,
              !.todo = {cacheName \in w.caches : ShouldDelete(cacheName)}]

\* one of the deletions completes
SW_deleted(w, cacheName) ==
    [SW_delete(w, cacheName) EXCEPT !.todo = @ \ {cacheName}]

\* Promise.all has resolved: clients.claim()
SW_activated(w) == [w EXCEPT !.state = "activated"]

Methods == {"GET", "POST"}
Schemes == {"https", "chrome-extension"}
\* a precached asset and a file that is not precached
Urls == {"/index.html", "/clip.webm"}
Destinations == {"document", "video"}

\* the responses of the network: found, not found, cross-origin
Responses ==
    {[status |-> 200, type |-> "basic"], [status |-> 404, type |-> "basic"],
     [status |-> 200, type |-> "cors"]}

\* the fetch listener up to its return
SW_fetch(w, method, scheme, url, destination) ==
    IF method # "GET"
    THEN [w EXCEPT !.last = [method |-> method, respondWith |-> FALSE]]
    ELSE IF scheme \notin {"http", "https"}
    THEN [w EXCEPT !.last = [method |-> method, respondWith |-> FALSE]]
    ELSE [w EXCEPT !.last = [method |-> method, respondWith |-> TRUE],
                   !.fetches = Append(@, [url |-> url,
                                          destination |-> destination,
                                          network |-> FALSE])]

Answer(w, i, from) ==
    [w EXCEPT !.fetches = RemoveAt(@, i),
              !.answered = [network |-> w.fetches[i].network,
                            from |-> from]]

\* caches.match(event.request) has resolved
SW_matched(w, i) ==
    IF SW_match(w, w.fetches[i].url)
    THEN Answer(w, i, "cache")
    ELSE [w EXCEPT !.fetches[i].network = TRUE]

\* every response is stored
Cacheable_always(response) == TRUE

\* the response is stored: not (!response || status !== 200 || type !==
\* 'basic')
Cacheable(response) == response.status = 200 /\ response.type = "basic"

\* fetch(event.request) has resolved with response
SW_fetched(w, i, response) ==
    LET w1 == Answer(w, i, "network")
    IN IF Cacheable(response)
       THEN [w1 EXCEPT !.puts = @ \cup
                {[cache |-> CACHE_NAME, url |-> w.fetches[i].url,
                  status |-> response.status, type |-> response.type,
                  by |-> "fetch"]}]
       ELSE w1

\* fetch(event.request) has rejected
SW_fetchFailed(w, i) ==
    IF w.fetches[i].destination = "document"
    THEN IF SW_match(w, "/index.html")
         THEN Answer(w, i, "offline page")
         ELSE Answer(w, i, "undefined")
    ELSE Answer(w, i, "error")

\* caches.open(CACHE_NAME).then(cache => cache.put(...)) has run
SW_stored(w, entry) ==
    [SW_put(SW_open(w, CACHE_NAME), entry) EXCEPT !.puts = @ \ {entry}]

MaxFetches == 2

\* the worker's script has been fetched; the origin's CacheStorage holds
\* what earlier versions and an earlier installation of this one left
InitWorker ==
    /\ ControlAtRest
    /\ variant = "components"
    /\ ui = UiAtRest
    /\ \E names \in SUBSET (StaleCacheNames \cup {CACHE_NAME}) :
          sw = [SwAtRest EXCEPT
                   !.caches = names,
                   !.cached = {Stored200(name, "/index.html", "earlier") :
                                  name \in names}]

Worker(w) ==
    /\ sw' = w
    /\ UNCHANGED <<controlVars, ui>>

InstallEvent(outcome) ==
    /\ sw.state = "parsed"
    /\ Worker(SW_install(sw, outcome))

\* the activate event is dispatched; caches.keys() is pending
ActivateEvent ==
    /\ sw.state = "installed"
    /\ Worker([sw EXCEPT !.state = "activating"])

KeysResolved ==
    /\ sw.state = "activating"
    /\ Worker(SW_activateKeys(sw))

DeleteResolved(cacheName) ==
    /\ sw.state = "deleting"
    /\ cacheName \in sw.todo
    /\ Worker(SW_deleted(sw, cacheName))

AllResolved ==
    /\ sw.state = "deleting"
    /\ sw.todo = {}
    /\ Worker(SW_activated(sw))

\* fetch events are dispatched to the active worker
FetchEvent(method, scheme, url, destination) ==
    /\ sw.state = "activated"
    /\ Len(sw.fetches) < MaxFetches
    /\ Worker(SW_fetch(sw, method, scheme, url, destination))

MatchResolved(i) ==
    /\ ~sw.fetches[i].network
    /\ Worker(SW_matched(sw, i))

NetworkResolved(i, response) ==
    /\ sw.fetches[i].network
    /\ Worker(SW_fetched(sw, i, response))

NetworkRejected(i) ==
    /\ sw.fetches[i].network
    /\ Worker(SW_fetchFailed(sw, i))

PutResolved(entry) ==
    /\ entry \in sw.puts
    /\ Worker(SW_stored(sw, entry))

NextWorker ==
    \/ \E outcome \in {"cached", "addAllFailed", "openFailed"} :
           InstallEvent(outcome)
    \/ ActivateEvent
    \/ KeysResolved
    \/ \E cacheName \in StaleCacheNames : DeleteResolved(cacheName)
    \/ AllResolved
    \/ \E method \in Methods, scheme \in Schemes, url \in Urls,
          destination \in Destinations :
           FetchEvent(method, scheme, url, destination)
    \/ \E i \in DOMAIN sw.fetches : MatchResolved(i)
    \/ \E i \in DOMAIN sw.fetches, response \in Responses :
           NetworkResolved(i, response)
    \/ \E i \in DOMAIN sw.fetches : NetworkRejected(i)
    \/ \E entry \in sw.puts : PutResolved(entry)

SpecWorker == InitWorker /\ [][NextWorker]_vars

\* no cache with a name other than CACHE_NAME exists
StaleCachesDeleted == sw.caches \subseteq {CACHE_NAME}

\* a step of the activate handler does not delete the current cache
CurrentCacheKept ==
    sw.state \in {"installed", "activating", "deleting"}
    /\ CACHE_NAME \in sw.caches => CACHE_NAME \in sw'.caches

\* C36: once the activate handler has completed, every cache whose name
\* differs from CACHE_NAME has been deleted, and the handler never deletes
\* the cache named CACHE_NAME.
C36_StaleCachesDeleted ==
    /\ [](sw.state = "activated" => StaleCachesDeleted)
    /\ [][CurrentCacheKept]_vars

\* activation has completed after it deleted two stale caches and kept the
\* current one with the installed assets
C36_Witness ==
    /\ sw.state = "activated"
    /\ StaleCacheNames \subseteq sw.keys
    /\ sw.caches = {CACHE_NAME}
    /\ \E e \in sw.cached : e.by = "install"

\* what the fetch handler has stored or is storing
WrittenByFetch == {e \in sw.cached \cup sw.puts : e.by = "fetch"}

\* the resolution of caches.match for the i-th pending fetch event: with a
\* match the event is answered from the cache and fetch() is not called,
\* without one fetch() is called
CacheFirst(i) ==
    MatchResolved(i) =>
        IF SW_match(sw, sw.fetches[i].url)
        THEN /\ sw'.answered = [network |-> FALSE, from |-> "cache"]
             /\ sw'.fetches = RemoveAt(sw.fetches, i)
             /\ sw'.puts = sw.puts
        ELSE /\ sw'.fetches[i].network
             /\ sw'.answered = sw.answered

\* C37: a GET request over http(s) with a match in the cache is answered
\* with the cached response and without a network request; without a match
\* the network is used; a network response is written to the cache only if
\* its status is 200 and its type is 'basic'; the listener does not call
\* respondWith for a request that is not a GET.
C37_CacheFirstServing ==
    /\ [](/\ \A e \in WrittenByFetch :
                e.status = 200 /\ e.type = "basic"
          /\ sw.answered.from = "cache" => ~sw.answered.network
          /\ sw.answered.from \in {"network", "offline page", "undefined",
                                   "error"} => sw.answered.network
          /\ sw.last.method # "GET" => ~sw.last.respondWith)
    /\ [][\A i \in DOMAIN sw.fetches : CacheFirst(i)]_vars

\* a response that the fetch handler wrote to the cache has answered a
\* later request, and the last event was a POST that the worker let pass
C37_Witness ==
    /\ sw.answered = [network |-> FALSE, from |-> "cache"]
    /\ \E e \in sw.cached : e.by = "fetch" /\ e.url = "/clip.webm"
    /\ sw.last = [method |-> "POST", respondWith |-> FALSE]

====
